---- MODULE Spec2Model ----
\* Statera (github.com/mhef/statera): the balancers of lb/router/algo (RR, WRR,
\* LC) and the node group of lb/router with its per-node health checker.
EXTENDS Integers, Sequences, FiniteSets, Bags, TLC

VARIABLES
    algo,        \* which Balancer implementation the group holds ("rr", "wrr", "lc")
    weight,      \* Node.Weight of every Node object
    nodes,       \* RR.nodes / WRR.nodes: the list's Values, front to back
    cur,         \* RR.cur / WRR.cur: a reference to a list element
    reqCredit,   \* WRR.reqCredit
    lcNodes,     \* LC.nodes: the heap array of nodeWR objects
    detached,    \* nodeWR objects removed from the heap that a monitorRequestFinish goroutine still holds
    panicked,    \* a goroutine has panicked: the process is gone
    hist,        \* results of the Balance calls made since the last AddNode/DeleteNode
    fresh,       \* the balancer was built by AddNode calls alone (no Balance, no DeleteNode before them)
    live,        \* the Node objects passed to Balancer.AddNode whose key was not passed to DeleteNode since
    ngNodes,     \* NodeGroup.nodes: NodeKey -> *Node
    healthy,     \* Node.healthy
    healthCheckerCancel, \* Node.healthCheckerCancel is not nil
    ctxDone,     \* the context of the node's health checker goroutine is cancelled
    checker,     \* where the node's health checker goroutine is
    everOK,      \* the nodes one of whose probes returned without error and with status 200
    lastProbe,   \* the outcome of the node's probe that returned last
    calls,       \* number of NodeGroup.AddNode / NodeGroup.DeleteNode calls made
    probes,      \* number of checkNodeHealth calls made
    keyClash,    \* NodeGroup.AddNode was called with a key the group held a node under
    lcMinOK,     \* every node LC.Balance returned had, just before the call, a minimal reqs in the heap
    delMiss,     \* the last call on the balancer was a DeleteNode with a key that was not in the pool
    delCur,      \* the last AddNode/DeleteNode call removed the element RR.cur / WRR.cur pointed at: the node after it
    finDet,      \* the last call on the balancer was a monitorRequestFinish for a nodeWR that had left the heap
    e_r,         \* Evaluator.r: the rule list (rule objects, by name)
    ins,         \* the rules of e_r in the order AddRule was called with them
    ruleDeleted, \* DeleteRule took a rule out of e_r
    req,         \* the request Evaluator.Handler served last
    evald,       \* the <<rule index, condition index>> pairs evaluateCondition was called for, in order
    resp,        \* what Evaluator.Handler did with the request
    rpc,         \* where Router.Handler is with the request it serves
    rq,          \* the request Router.Handler serves: its evaluation result, the node Balance gave, how the forward ended
    rcalls,      \* number of Balance calls made for the request
    rtried,      \* the nodes the request was forwarded to, in order
    rresp,       \* the response Router.Handler wrote
    signalled,   \* SIGINT/SIGTERM was delivered
    lstate,      \* where each listener's ListenAndServe is
    inflight,    \* number of requests each listener's server is serving
    process,     \* the process: running, returned from listenerControl, or terminated by a panic
    locks,       \* the goroutine that holds each mutex (RR.mu/WRR.mu/LC.mu, NodeGroup.nodesMu, Node.healthMu), 0: none
    gprog,       \* what each goroutine has left to do of the call it is in: Lock, Write, Unlock, Panic steps
    gsnap        \* the balancer state each goroutine found when it took the balancer's mutex

balVars == <<nodes, cur, reqCredit, lcNodes, detached>>
ghostVars == <<hist, fresh, live, lcMinOK>>
groupVars == <<ngNodes, healthy, healthCheckerCancel, ctxDone, checker, everOK, lastProbe, keyClash, calls, probes>>
evalVars == <<e_r, ins, ruleDeleted, req, evald, resp>>
routerVars == <<rpc, rq, rcalls, rtried, rresp>>
serverVars == <<signalled, lstate, inflight, process>>
concVars == <<locks, gprog, gsnap>>
restVars == <<evalVars, routerVars, serverVars, concVars>>
vars == <<algo, weight, nodes, cur, reqCredit, lcNodes, detached, panicked, hist, fresh, live, lcMinOK,
          ngNodes, healthy, healthCheckerCancel, ctxDone, checker, everOK, lastProbe, keyClash, calls, probes,
          delMiss, delCur, finDet, e_r, ins, ruleDeleted, req, evald, resp, rpc, rq, rcalls, rtried, rresp,
          signalled, lstate, inflight, process, locks, gprog, gsnap>>

-----------------------------------------------------------------------------
\* Bounds of the model.

\* Largest Node.Weight tried for a WRR pool.
MaxWeight == 3
\* Number of full passes over the pool the recorded Balance results span.
MaxPasses == 2
\* Number of dispatched requests that have not completed yet (LC).
MaxInFlight == 3
\* Number of requests forwarded to a group that have not completed yet (LC).
MaxGroupInFlight == 2
\* Number of NodeGroup.AddNode / NodeGroup.DeleteNode calls made on the group.
MaxCalls == 3
\* Number of probes (checkNodeHealth calls) the health checkers make.
MaxProbes == 3

-----------------------------------------------------------------------------
\* Nodes and keys.

\* Node objects (*router.Node). A and A2 are two objects with the same NodeKey.
Nodes == {"A", "A2", "B", "C"}
\* The nil *Node.
NoNode == "nil"
\* Node.NodeKey (Host, Port) of a Node object.
Key(n) == IF n = "A2" THEN "A" ELSE n
Keys == {Key(n) : n \in Nodes}
\* The Node objects handed to a balancer that is driven directly.
PoolNodes == {"A", "B", "C"}
\* Weights of the configuration in the WRR scenario: A(3), B(1), C(2).
DefaultWeight == [n \in Nodes |-> CASE n = "A" -> 3 [] n = "B" -> 1 [] n = "C" -> 2 [] OTHER -> 2]
Weights == -1 .. MaxWeight

-----------------------------------------------------------------------------
\* container/list as the balancers use it. The list is the sequence of its
\* Values; a *list.Element is [pos, Value]: pos is the element's place in the
\* list, 0 for the nil element and -1 for an element that was removed from the
\* list (its Value stays readable, its Next() is nil).

NilElem == [pos |-> 0, Value |-> NoNode]
Elem(l, i) == [pos |-> i, Value |-> l[i]]
Front(l) == IF Len(l) = 0 THEN NilElem ELSE Elem(l, 1)
Next(l, e) == IF e.pos >= 1 /\ e.pos < Len(l) THEN Elem(l, e.pos + 1) ELSE NilElem
PushBack(l, n) == Append(l, n)
RemoveAt(l, i) == [j \in 1 .. (Len(l) - 1) |-> IF j < i THEN l[j] ELSE l[j + 1]]
\* What a reference e designates once the element at place i has been removed.
AfterRemove(e, i) ==
    IF e.pos = i THEN [pos |-> -1, Value |-> e.Value]
    ELSE IF e.pos > i THEN [pos |-> e.pos - 1, Value |-> e.Value]
    ELSE e
\* The first element whose Value has key k: the element the DeleteNode loops stop at (0: none).
FirstWithKey(l, k) ==
    IF \E i \in 1 .. Len(l) : Key(l[i]) = k
    THEN CHOOSE i \in 1 .. Len(l) : Key(l[i]) = k /\ \A j \in 1 .. (i - 1) : Key(l[j]) # k
    ELSE 0

-----------------------------------------------------------------------------
\* RR (round-robin).

RRAddNode(n) == [nodes |-> PushBack(nodes, n), cur |-> cur]

RRDeleteNode_NoCursorFix(k) ==
    LET i == FirstWithKey(nodes, k) IN
    IF i = 0 THEN [nodes |-> nodes, cur |-> cur]
    ELSE [nodes |-> RemoveAt(nodes, i), cur |-> AfterRemove(cur, i)]

RRDeleteNode_CursorToHead(k) ==
    LET i == FirstWithKey(nodes, k) IN
    IF i = 0 THEN [nodes |-> nodes, cur |-> cur]
    ELSE LET e == Elem(nodes, i)
             c == IF e = cur
                  THEN IF Len(nodes) = 1 THEN NilElem
                       ELSE IF i = 1 THEN Next(nodes, e)
                       ELSE Front(nodes)
                  ELSE cur
         IN [nodes |-> RemoveAt(nodes, i), cur |-> AfterRemove(c, i)]

RRDeleteNode(k) ==
    LET i == FirstWithKey(nodes, k) IN
    IF i = 0 THEN [nodes |-> nodes, cur |-> cur]
    ELSE LET e == Elem(nodes, i)
             c == IF e = cur
                  THEN IF Len(nodes) = 1 THEN NilElem
                       ELSE IF Next(nodes, e) = NilElem THEN Front(nodes)
                       ELSE Next(nodes, e)
                  ELSE cur
         IN [nodes |-> RemoveAt(nodes, i), cur |-> AfterRemove(c, i)]

RRBalance_NoWrap ==
    IF Len(nodes) = 0 THEN [ret |-> NoNode, cur |-> cur]
    ELSE LET v == IF cur = NilElem THEN Front(nodes) ELSE cur
             nx == Next(nodes, v)
         IN [ret |-> v.Value, cur |-> IF nx = NilElem THEN v ELSE nx]

RRBalance_NilAtEnd ==
    IF Len(nodes) = 0 THEN [ret |-> NoNode, cur |-> cur]
    ELSE IF cur = NilElem THEN [ret |-> NoNode, cur |-> Front(nodes)]
    ELSE [ret |-> cur.Value, cur |-> Next(nodes, cur)]

RRBalance ==
    IF Len(nodes) = 0 THEN [ret |-> NoNode, cur |-> cur]
    ELSE LET v == IF cur = NilElem THEN Front(nodes) ELSE cur
         IN [ret |-> v.Value, cur |-> Next(nodes, v)]

-----------------------------------------------------------------------------
\* WRR (weighted round-robin).

WRRAddNode(n) == [nodes |-> PushBack(nodes, n), cur |-> cur, reqCredit |-> reqCredit]

WRRDeleteNode_ResetOnMiss(k) ==
    LET i == FirstWithKey(nodes, k) IN
    IF i = 0 THEN [nodes |-> nodes, cur |-> NilElem, reqCredit |-> 0]
    ELSE [nodes |-> RemoveAt(nodes, i), cur |-> NilElem, reqCredit |-> 0]

WRRDeleteNode_KeepCredit(k) ==
    LET i == FirstWithKey(nodes, k) IN
    IF i = 0 THEN [nodes |-> nodes, cur |-> cur, reqCredit |-> reqCredit]
    ELSE LET e == Elem(nodes, i)
             c == IF e = cur
                  THEN IF Len(nodes) = 1 THEN NilElem
                       ELSE IF Next(nodes, e) = NilElem THEN Front(nodes)
                       ELSE Next(nodes, cur)
                  ELSE cur
         IN [nodes |-> RemoveAt(nodes, i), cur |-> AfterRemove(c, i), reqCredit |-> reqCredit]

WRRDeleteNode(k) ==
    LET i == FirstWithKey(nodes, k) IN
    IF i = 0 THEN [nodes |-> nodes, cur |-> cur, reqCredit |-> reqCredit]
    ELSE LET e == Elem(nodes, i)
             c == IF e = cur
                  THEN IF Len(nodes) = 1 THEN NilElem
                       ELSE IF Next(nodes, e) = NilElem THEN Front(nodes)
                       ELSE Next(nodes, cur)
                  ELSE cur
             credit == IF e = cur /\ Len(nodes) # 1 THEN weight[c.Value] ELSE reqCredit
         IN [nodes |-> RemoveAt(nodes, i), cur |-> AfterRemove(c, i), reqCredit |-> credit]

WRRBalance_FullCreditAtHead ==
    IF Len(nodes) = 0 THEN [ret |-> NoNode, cur |-> cur, reqCredit |-> reqCredit]
    ELSE IF cur = NilElem
    THEN [ret |-> Front(nodes).Value, cur |-> Front(nodes),
          reqCredit |-> weight[Front(nodes).Value]]
    ELSE LET credit == reqCredit - 1
             nx == Next(nodes, cur)
         IN IF credit < 1
            THEN [ret |-> cur.Value, cur |-> nx,
                  reqCredit |-> IF nx # NilElem THEN weight[nx.Value] ELSE 0]
            ELSE [ret |-> cur.Value, cur |-> cur, reqCredit |-> credit]

WRRBalance_HeadOnce ==
    IF Len(nodes) = 0 THEN [ret |-> NoNode, cur |-> cur, reqCredit |-> reqCredit]
    ELSE IF cur = NilElem
    THEN LET f == Front(nodes)
             nx == Next(nodes, f)
         IN [ret |-> f.Value, cur |-> nx,
             reqCredit |-> IF nx # NilElem THEN weight[nx.Value] ELSE 0]
    ELSE LET credit == reqCredit - 1
             nx == Next(nodes, cur)
         IN IF credit < 1
            THEN [ret |-> cur.Value, cur |-> nx,
                  reqCredit |-> IF nx # NilElem THEN weight[nx.Value] ELSE 0]
            ELSE [ret |-> cur.Value, cur |-> cur, reqCredit |-> credit]

WRRBalance_NoLightHead ==
    IF Len(nodes) = 0 THEN [ret |-> NoNode, cur |-> cur, reqCredit |-> reqCredit]
    ELSE IF cur = NilElem
    THEN LET f == Front(nodes) IN
         [ret |-> f.Value, cur |-> f, reqCredit |-> weight[f.Value] - 1]
    ELSE LET credit == reqCredit - 1
             nx == Next(nodes, cur)
         IN IF credit < 1
            THEN [ret |-> cur.Value, cur |-> nx,
                  reqCredit |-> IF nx # NilElem THEN weight[nx.Value] ELSE 0]
            ELSE [ret |-> cur.Value, cur |-> cur, reqCredit |-> credit]

WRRBalance_CreditToZero ==
    IF Len(nodes) = 0 THEN [ret |-> NoNode, cur |-> cur, reqCredit |-> reqCredit]
    ELSE IF cur = NilElem
    THEN LET f == Front(nodes) IN
         IF weight[f.Value] <= 1
         THEN LET nx == Next(nodes, f) IN
              [ret |-> f.Value, cur |-> nx,
               reqCredit |-> IF nx # NilElem THEN weight[nx.Value] ELSE 0]
         ELSE [ret |-> f.Value, cur |-> f, reqCredit |-> weight[f.Value] - 1]
    ELSE LET credit == reqCredit - 1
             nx == Next(nodes, cur)
         IN IF credit < 0
            THEN [ret |-> cur.Value, cur |-> nx,
                  reqCredit |-> IF nx # NilElem THEN weight[nx.Value] ELSE 0]
            ELSE [ret |-> cur.Value, cur |-> cur, reqCredit |-> credit]

WRRBalance ==
    IF Len(nodes) = 0 THEN [ret |-> NoNode, cur |-> cur, reqCredit |-> reqCredit]
    ELSE IF cur = NilElem
    THEN LET f == Front(nodes) IN
         IF weight[f.Value] <= 1
         THEN LET nx == Next(nodes, f) IN
              [ret |-> f.Value, cur |-> nx,
               reqCredit |-> IF nx # NilElem THEN weight[nx.Value] ELSE 0]
         ELSE [ret |-> f.Value, cur |-> f, reqCredit |-> weight[f.Value] - 1]
    ELSE LET credit == reqCredit - 1
             nx == Next(nodes, cur)
         IN IF credit < 1
            THEN [ret |-> cur.Value, cur |-> nx,
                  reqCredit |-> IF nx # NilElem THEN weight[nx.Value] ELSE 0]
            ELSE [ret |-> cur.Value, cur |-> cur, reqCredit |-> credit]

-----------------------------------------------------------------------------
\* LC (least-connections). A nodeWR object is [node, reqs, index, mon]: mon is
\* the number of monitorRequestFinish goroutines that hold a pointer to it and
\* have not run yet. Heap positions are 0-based, as in the source.

nodeWR(n) == [node |-> n, reqs |-> 0, index |-> -1, mon |-> 0]
At(h, i) == h[i + 1]
\* Go's integer division truncates towards zero.
GoDiv(a, b) == IF a >= 0 THEN a \div b ELSE -((-a) \div b)

Less(h, i, j) == At(h, i).reqs < At(h, j).reqs

Swap(h, i, j) ==
    [p \in 1 .. Len(h) |->
        IF p = i + 1 THEN [h[j + 1] EXCEPT !.index = i]
        ELSE IF p = j + 1 THEN [h[i + 1] EXCEPT !.index = j]
        ELSE h[p]]

Push(h, x) == Append(h, [x EXCEPT !.index = Len(h)])

Pop_KeepIndex(h) == [h |-> SubSeq(h, 1, Len(h) - 1), item |-> h[Len(h)]]

\* The heap without its last element; the popped item gets index -1.
Pop(h) == [h |-> SubSeq(h, 1, Len(h) - 1), item |-> [h[Len(h)] EXCEPT !.index = -1]]

\* container/heap up(h, j).
RECURSIVE HeapUp(_, _)
HeapUp(h, j) ==
    LET i == GoDiv(j - 1, 2) IN
    IF i = j \/ ~Less(h, j, i) THEN h ELSE HeapUp(Swap(h, i, j), i)

\* container/heap down(h, i0, n): the heap and the place the item sank to.
RECURSIVE HeapDown(_, _, _)
HeapDown(h, i, n) ==
    LET j1 == 2 * i + 1 IN
    IF j1 >= n \/ j1 < 0 THEN [h |-> h, i |-> i]
    ELSE LET j2 == j1 + 1
             j == IF j2 < n /\ Less(h, j2, j1) THEN j2 ELSE j1
         IN IF ~Less(h, j, i) THEN [h |-> h, i |-> i]
            ELSE HeapDown(Swap(h, i, j), j, n)

\* heap.Fix(h, i) indexes the array out of range: up() reads h[i] unless i is 0 or -1.
HeapFixPanics(h, i) == (i < 0 \/ i >= Len(h)) /\ i # 0 /\ i # -1

\* heap.Fix(h, i).
HeapFix(h, i) ==
    LET d == HeapDown(h, i, Len(h)) IN
    IF d.i > i THEN d.h ELSE HeapUp(h, i)

\* heap.Push(h, x).
HeapPush(h, x) == HeapUp(Push(h, x), Len(h))

\* heap.Remove(h, i): the heap and the removed item.
HeapRemove(h, i) ==
    LET n == Len(h) - 1 IN
    IF n = i THEN Pop(h)
    ELSE LET s == Swap(h, i, n)
             d == HeapDown(s, i, n)
         IN Pop(IF d.i > i THEN d.h ELSE HeapUp(s, i))

\* The nodeWR objects nobody will touch again are dropped from `detached`.
Keep(x) == IF x.mon > 0 THEN SetToBag({x}) ELSE EmptyBag

LCAddNode(n) == [lcNodes |-> HeapPush(lcNodes, nodeWR(n)), detached |-> detached]

LCDeleteNode(k) ==
    LET p == IF \E i \in 1 .. Len(lcNodes) : Key(lcNodes[i].node) = k
             THEN CHOOSE i \in 1 .. Len(lcNodes) :
                      /\ Key(lcNodes[i].node) = k
                      /\ \A j \in 1 .. (i - 1) : Key(lcNodes[j].node) # k
             ELSE 0
    IN IF p = 0 THEN [lcNodes |-> lcNodes, detached |-> detached]
       ELSE LET r == HeapRemove(lcNodes, lcNodes[p].index)
            IN [lcNodes |-> r.h, detached |-> detached (+) Keep(r.item)]

LCBalance_NoFix ==
    IF Len(lcNodes) = 0 THEN [ret |-> NoNode, lcNodes |-> lcNodes]
    ELSE LET selected == [lcNodes[1] EXCEPT !.reqs = @ + 1, !.mon = @ + 1]
         IN [ret |-> selected.node, lcNodes |-> [lcNodes EXCEPT ![1] = selected]]

LCBalance ==
    IF Len(lcNodes) = 0 THEN [ret |-> NoNode, lcNodes |-> lcNodes]
    ELSE LET selected == [lcNodes[1] EXCEPT !.reqs = @ + 1, !.mon = @ + 1]
         IN [ret |-> selected.node,
             lcNodes |-> HeapFix([lcNodes EXCEPT ![1] = selected], 0)]

\* monitorRequestFinish for the nodeWR at heap place p (1-based), once the
\* request's context is done.
monitorRequestFinishInHeap(p) ==
    LET n == [lcNodes[p] EXCEPT !.reqs = @ - 1, !.mon = @ - 1]
        h == [lcNodes EXCEPT ![p] = n]
    IN [lcNodes |-> IF HeapFixPanics(h, n.index) THEN h ELSE HeapFix(h, n.index),
        detached |-> detached,
        panic |-> HeapFixPanics(h, n.index)]

\* monitorRequestFinish for a nodeWR x that is no longer in the heap.
monitorRequestFinishDetached(x) ==
    LET n == [x EXCEPT !.reqs = @ - 1, !.mon = @ - 1]
    IN [lcNodes |-> IF HeapFixPanics(lcNodes, n.index) THEN lcNodes
                    ELSE HeapFix(lcNodes, n.index),
        detached |-> (detached (-) SetToBag({x})) (+) Keep(n),
        panic |-> HeapFixPanics(lcNodes, n.index)]

-----------------------------------------------------------------------------
\* The Balancer interface: the call goes to the implementation the group holds.

\* The Node objects in the balancing pool.
Pool ==
    IF algo = "lc" THEN {lcNodes[i].node : i \in 1 .. Len(lcNodes)}
    ELSE {nodes[i] : i \in 1 .. Len(nodes)}
PoolKeys == {Key(n) : n \in Pool}

Balancer_AddNode(n) ==
    CASE algo = "rr" ->
            /\ nodes' = RRAddNode(n).nodes
            /\ cur' = RRAddNode(n).cur
            /\ UNCHANGED <<reqCredit, lcNodes, detached>>
      [] algo = "wrr" ->
            /\ nodes' = WRRAddNode(n).nodes
            /\ cur' = WRRAddNode(n).cur
            /\ reqCredit' = WRRAddNode(n).reqCredit
            /\ UNCHANGED <<lcNodes, detached>>
      [] algo = "lc" ->
            /\ lcNodes' = LCAddNode(n).lcNodes
            /\ detached' = LCAddNode(n).detached
            /\ UNCHANGED <<nodes, cur, reqCredit>>

Balancer_DeleteNode(k) ==
    CASE algo = "rr" ->
            /\ nodes' = RRDeleteNode(k).nodes
            /\ cur' = RRDeleteNode(k).cur
            /\ UNCHANGED <<reqCredit, lcNodes, detached>>
      [] algo = "wrr" ->
            /\ nodes' = WRRDeleteNode(k).nodes
            /\ cur' = WRRDeleteNode(k).cur
            /\ reqCredit' = WRRDeleteNode(k).reqCredit
            /\ UNCHANGED <<lcNodes, detached>>
      [] algo = "lc" ->
            /\ lcNodes' = LCDeleteNode(k).lcNodes
            /\ detached' = LCDeleteNode(k).detached
            /\ UNCHANGED <<nodes, cur, reqCredit>>

\* The node Balance returns in the current state.
BalanceRet ==
    CASE algo = "rr" -> RRBalance.ret
      [] algo = "wrr" -> WRRBalance.ret
      [] algo = "lc" -> LCBalance.ret

Balancer_Balance ==
    CASE algo = "rr" ->
            /\ cur' = RRBalance.cur
            /\ UNCHANGED <<nodes, reqCredit, lcNodes, detached>>
      [] algo = "wrr" ->
            /\ cur' = WRRBalance.cur
            /\ reqCredit' = WRRBalance.reqCredit
            /\ UNCHANGED <<nodes, lcNodes, detached>>
      [] algo = "lc" ->
            /\ lcNodes' = LCBalance.lcNodes
            /\ UNCHANGED <<nodes, cur, reqCredit, detached>>

-----------------------------------------------------------------------------
\* What the recorded history needs.

\* Number of Balance calls of one pass over the pool.
RECURSIVE SumWeights(_)
SumWeights(l) ==
    IF Len(l) = 0 THEN 0
    ELSE (IF weight[Head(l)] <= 1 THEN 1 ELSE weight[Head(l)]) + SumWeights(Tail(l))
PassLen == IF algo = "wrr" THEN SumWeights(nodes) ELSE Len(nodes)
HistCap == IF algo = "lc" THEN 1 ELSE MaxPasses * PassLen + 1
Record(h, r, cap) ==
    IF Len(h) < cap THEN Append(h, r)
    ELSE Append(Tail(h), r)
Last(h) == h[Len(h)]
\* Dispatched requests whose monitorRequestFinish has not run.
RECURSIVE SumMon(_)
SumMon(h) == IF Len(h) = 0 THEN 0 ELSE Head(h).mon + SumMon(Tail(h))
RECURSIVE BagMon(_)
BagMon(b) ==
    IF BagToSet(b) = {} THEN 0
    ELSE LET x == CHOOSE y \in BagToSet(b) : TRUE
         IN x.mon + BagMon(b (-) SetToBag({x}))
InFlight == SumMon(lcNodes) + BagMon(detached)
MinReqs(h) == CHOOSE m \in {h[i].reqs : i \in 1 .. Len(h)} : \A i \in 1 .. Len(h) : m <= h[i].reqs
\* DeleteNode(k) does not remove the element the cursor points at.
NoCursorHit == "no"
\* The node after the element DeleteNode(k) removes, when RR.cur / WRR.cur
\* points at that element: the next element's, the front's when the element is
\* the last one, nil when it is the only one.
AfterCursor(k) ==
    LET i == FirstWithKey(nodes, k) IN
    IF algo \in {"rr", "wrr"} /\ i # 0 /\ cur.pos = i
    THEN IF Len(nodes) = 1 THEN NoNode
         ELSE IF i = Len(nodes) THEN nodes[1]
         ELSE nodes[i + 1]
    ELSE NoCursorHit

-----------------------------------------------------------------------------
\* Initial states: NewRR / NewWRR / NewLC, and a NodeGroup no node was added to.

-----------------------------------------------------------------------------
\* The evaluator (evaluator.go, condition.go). A string that the code compares
\* is a sequence of characters; names and messages are plain strings.

\* Largest number of rules the Evaluator holds.
MaxRules == 3

\* Listener.Addr of the listeners; NoListener: the request context has no listener.
Listeners == {"L1", "L2"}
NoListener == "none"
Paths == {<<"/", "x">>, <<"/", "X">>, <<"/", "x", "y">>, <<"/", "y">>}
ClientIPs == {"10.1.1.1", "192.168.0.1"}
\* The requests: the listener of the context, URL.EscapedPath(), the host of RemoteAddr.
Requests == [listener : Listeners \cup {NoListener}, path : Paths, ip : ClientIPs]
NoRequest == [listener |-> NoListener, path |-> <<>>, ip |-> ""]

\* strings.ToLower
ToLower(a) == [i \in 1 .. Len(a) |-> IF a[i] = "X" THEN "x" ELSE IF a[i] = "Y" THEN "y" ELSE a[i]]
\* strings.HasPrefix
HasPrefix(a, b) == Len(b) <= Len(a) /\ SubSeq(a, 1, Len(b)) = b

\* doStrCondOp for the operations Equal, BeginWith and Range (Regex is left out).
doStrCondOp(op, a, b) ==
    CASE op = "Equal" -> [ret |-> ToLower(a) = ToLower(b), err |-> FALSE]
      [] op = "BeginWith" -> [ret |-> HasPrefix(ToLower(a), ToLower(b)), err |-> FALSE]
      [] OTHER -> [ret |-> FALSE, err |-> TRUE]

evaluateCondPath(q, c) == doStrCondOp(c.Operation, q.path, c.Value)

\* evaluateCondIP: net.ParseCIDR fails on "bad"; 10.0.0.0/8 holds 10.1.1.1 alone.
evaluateCondIP(q, c) ==
    IF c.Operation # "Range" THEN [ret |-> FALSE, err |-> TRUE]
    ELSE IF c.Value = "bad" THEN [ret |-> FALSE, err |-> TRUE]
    ELSE [ret |-> (c.Value = "10.0.0.0/8" /\ q.ip = "10.1.1.1"), err |-> FALSE]

\* evaluateCondition for the types Path and IP.
evaluateCondition(q, c) ==
    LET t == CASE c.Type = "Path" -> evaluateCondPath(q, c)
               [] c.Type = "IP" -> evaluateCondIP(q, c)
               [] OTHER -> [ret |-> FALSE, err |-> FALSE]
    IN [ret |-> (t.ret # c.Not), err |-> t.err]

Cond(not, type, op, value) == [Not |-> not, Type |-> type, Operation |-> op, Value |-> value]
\* Action{NodeGroup, Reject{StatusCode, Message}, Redirect}
Action(ng, code, msg, redirect) ==
    [NodeGroup |-> ng, Reject |-> [StatusCode |-> code, Message |-> msg], Redirect |-> redirect]
\* Action{}
ZeroAction == Action("", 0, "", "")

\* The rule objects (*Rule) handed to AddRule and DeleteRule.
RuleNames == {"R1", "R2", "R3", "R4", "R5", "R6", "R7"}
Rule ==
    [n \in RuleNames |->
        CASE n = "R1" -> [Priority |-> 1, Listener |-> "L1",
                          Conditions |-> <<Cond(FALSE, "Path", "BeginWith", <<"/", "x">>)>>,
                          Action |-> Action("g1", 0, "", "")]
          [] n = "R2" -> [Priority |-> 1, Listener |-> "L2",
                          Conditions |-> <<Cond(FALSE, "Path", "Equal", <<"/", "x">>)>>,
                          Action |-> Action("", 403, "nope", "")]
          [] n = "R3" -> [Priority |-> 0, Listener |-> "L1",
                          Conditions |-> <<Cond(FALSE, "Path", "Equal", <<"/", "Y">>),
                                           Cond(FALSE, "IP", "Equal", "10.0.0.0/8")>>,
                          Action |-> Action("", 0, "", "https://e")]
          [] n = "R4" -> [Priority |-> 2, Listener |-> "L1",
                          Conditions |-> <<>>,
                          Action |-> ZeroAction]
          [] n = "R5" -> [Priority |-> 1, Listener |-> "L1",
                          Conditions |-> <<Cond(TRUE, "Path", "Equal", <<"/", "x">>)>>,
                          Action |-> Action("g2", 404, "gone", "https://e")]
          [] n = "R6" -> [Priority |-> 0, Listener |-> "L2",
                          Conditions |-> <<Cond(FALSE, "IP", "Range", "10.0.0.0/8"),
                                           Cond(TRUE, "Path", "BeginWith", <<"/", "x", "y">>)>>,
                          Action |-> Action("", 401, "denied", "https://e")]
          [] n = "R7" -> [Priority |-> 2, Listener |-> "L2",
                          Conditions |-> <<Cond(FALSE, "Path", "Range", <<"/", "x">>)>>,
                          Action |-> Action("g1", 0, "", "")]]

\* sort.SliceStable by Priority, as an insertion sort: an element moves left
\* past the elements of larger Priority only.
RECURSIVE InsertStable_BeforeEqual(_, _)
InsertStable_BeforeEqual(l, n) ==
    IF Len(l) = 0 THEN <<n>>
    ELSE IF Rule[n].Priority <= Rule[l[Len(l)]].Priority
         THEN Append(InsertStable_BeforeEqual(SubSeq(l, 1, Len(l) - 1), n), l[Len(l)])
         ELSE Append(l, n)

RECURSIVE InsertStable(_, _)
InsertStable(l, n) ==
    IF Len(l) = 0 THEN <<n>>
    ELSE IF Rule[n].Priority < Rule[l[Len(l)]].Priority
         THEN Append(InsertStable(SubSeq(l, 1, Len(l) - 1), n), l[Len(l)])
         ELSE Append(l, n)
RECURSIVE SliceStable(_)
SliceStable(l) ==
    IF Len(l) = 0 THEN <<>>
    ELSE InsertStable(SliceStable(SubSeq(l, 1, Len(l) - 1)), l[Len(l)])

\* Evaluator.AddRule: the new value of e.r.
EvalAddRule(n) == SliceStable(Append(e_r, n))

\* The list without its first element equal to n (the list itself if there is none).
RemoveFirst(l, n) ==
    IF \E i \in 1 .. Len(l) : l[i] = n
    THEN LET i == CHOOSE i \in 1 .. Len(l) : l[i] = n /\ \A j \in 1 .. (i - 1) : l[j] # n
         IN SubSeq(l, 1, i - 1) \o SubSeq(l, i + 1, Len(l))
    ELSE l
\* Evaluator.DeleteRule: the new value of e.r.
EvalDeleteRule(n) == RemoveFirst(e_r, n)

RECURSIVE evalConds_ErrorIsFalse(_, _, _)
evalConds_ErrorIsFalse(q, conds, j) ==
    IF j > Len(conds) THEN [res |-> "true", last |-> Len(conds)]
    ELSE LET t == evaluateCondition(q, conds[j]) IN
         IF t.err \/ ~t.ret THEN [res |-> "false", last |-> j]
         ELSE evalConds_ErrorIsFalse(q, conds, j + 1)

\* The loop over rule.Conditions, from condition j on: how it ends ("true":
\* every condition held, "false", "err") and the last condition evaluated.
RECURSIVE evalConds(_, _, _)
evalConds(q, conds, j) ==
    IF j > Len(conds) THEN [res |-> "true", last |-> Len(conds)]
    ELSE LET t == evaluateCondition(q, conds[j]) IN
         IF t.err THEN [res |-> "err", last |-> j]
         ELSE IF ~t.ret THEN [res |-> "false", last |-> j]
         ELSE evalConds(q, conds, j + 1)

RECURSIVE evalRules_LastMatch(_, _, _)
evalRules_LastMatch(q, i, log) ==
    IF i > Len(e_r)
    THEN [Action |-> Action("", 500, "no rule was satisfied", ""), err |-> FALSE, rule |-> 0, log |-> log]
    ELSE LET rule == Rule[e_r[i]] IN
         IF q.listener = NoListener \/ q.listener # rule.Listener
         THEN evalRules_LastMatch(q, i + 1, log)
         ELSE LET c == evalConds(q, rule.Conditions, 1)
                  log2 == log \o [j \in 1 .. c.last |-> <<i, j>>]
                  rest == evalRules_LastMatch(q, i + 1, log2)
              IN IF c.res = "err" THEN [Action |-> ZeroAction, err |-> TRUE, rule |-> 0, log |-> log2]
                 ELSE IF c.res = "true" /\ (rest.err \/ rest.rule = 0)
                      THEN [Action |-> rule.Action, err |-> FALSE, rule |-> i, log |-> log2]
                 ELSE rest

RECURSIVE evalRules_AnyListener(_, _, _)
evalRules_AnyListener(q, i, log) ==
    IF i > Len(e_r)
    THEN [Action |-> Action("", 500, "no rule was satisfied", ""), err |-> FALSE, rule |-> 0, log |-> log]
    ELSE LET rule == Rule[e_r[i]]
             c == evalConds(q, rule.Conditions, 1)
             log2 == log \o [j \in 1 .. c.last |-> <<i, j>>]
         IN IF c.res = "err" THEN [Action |-> ZeroAction, err |-> TRUE, rule |-> 0, log |-> log2]
            ELSE IF c.res = "true"
                 THEN [Action |-> rule.Action, err |-> FALSE, rule |-> i, log |-> log2]
            ELSE evalRules_AnyListener(q, i + 1, log2)

\* The loop of evaluateRequest over e.r, from rule i on; log holds the
\* evaluateCondition calls made so far, rule is the place in e.r of the rule
\* whose Action is returned (0: none).
RECURSIVE evalRules(_, _, _)
evalRules(q, i, log) ==
    IF i > Len(e_r)
    THEN [Action |-> Action("", 500, "no rule was satisfied", ""), err |-> FALSE, rule |-> 0, log |-> log]
    ELSE LET rule == Rule[e_r[i]] IN
         IF q.listener = NoListener \/ q.listener # rule.Listener
         THEN evalRules(q, i + 1, log)
         ELSE LET c == evalConds(q, rule.Conditions, 1)
                  log2 == log \o [j \in 1 .. c.last |-> <<i, j>>]
              IN IF c.res = "err" THEN [Action |-> ZeroAction, err |-> TRUE, rule |-> 0, log |-> log2]
                 ELSE IF c.res = "true"
                      THEN [Action |-> rule.Action, err |-> FALSE, rule |-> i, log |-> log2]
                 ELSE evalRules(q, i + 1, log2)

evaluateRequest(q) == evalRules(q, 1, <<>>)

\* What a handler does with a request: the status and message written with
\* WriteError, the Location of a redirect, whether next.ServeHTTP was called
\* and the EvaluationResult put in the context of the request handed to it.
Response(status, msg, location, next, ng) ==
    [status |-> status, msg |-> msg, location |-> location, next |-> next, NodeGroup |-> ng]
NoResponse == Response(0, "", "", FALSE, "")

EvalHandler_RejectFirst(q) ==
    LET t == evaluateRequest(q)
        a == t.Action
    IN IF t.err THEN Response(502, "rule evaluation failed", "", FALSE, "")
       ELSE IF a.Reject.StatusCode # 0 THEN Response(a.Reject.StatusCode, a.Reject.Message, "", FALSE, "")
       ELSE IF a.NodeGroup # "" THEN Response(0, "", "", TRUE, a.NodeGroup)
       ELSE IF a.Redirect # "" THEN Response(302, "", a.Redirect, FALSE, "")
       ELSE Response(502, "rule matched has no action", "", FALSE, "")

\* Evaluator.Handler.
EvalHandler(q) ==
    LET t == evaluateRequest(q)
        a == t.Action
    IN IF t.err THEN Response(502, "rule evaluation failed", "", FALSE, "")
       ELSE IF a.NodeGroup # "" THEN Response(0, "", "", TRUE, a.NodeGroup)
       ELSE IF a.Reject.StatusCode # 0 THEN Response(a.Reject.StatusCode, a.Reject.Message, "", FALSE, "")
       ELSE IF a.Redirect # "" THEN Response(302, "", a.Redirect, FALSE, "")
       ELSE Response(502, "rule matched has no action", "", FALSE, "")

InitEval ==
    /\ e_r = <<>>
    /\ ins = <<>>
    /\ ruleDeleted = FALSE
    /\ req = NoRequest
    /\ evald = <<>>
    /\ resp = NoResponse

\* Largest number of requests a listener's server serves at a time.
MaxRequests == 2

\* The listeners listenerControl starts (their Addr).
ServerListeners == {"L1", "L2", "L3"}

InitRouter ==
    /\ rpc = "idle"
    /\ rq = [eval |-> "", node |-> NoNode, fwd |-> ""]
    /\ rcalls = 0
    /\ rtried = <<>>
    /\ rresp = NoResponse

InitServer ==
    /\ signalled = FALSE
    /\ lstate = [l \in ServerListeners |-> "serving"]
    /\ inflight = [l \in ServerListeners |-> 0]
    /\ process = "running"

\* Number of goroutines that make calls at the same time.
MaxGoroutines == 2
Goroutines == 1 .. MaxGoroutines

\* The mutexes: the balancer's mu, the group's nodesMu, each node's healthMu.
LockNodes == {"A", "B"}
Mu == [mu |-> "mu", node |-> NoNode]
NodesMu == [mu |-> "nodesMu", node |-> NoNode]
HealthMu(n) == [mu |-> "healthMu", node |-> n]
Mutexes == {Mu, NodesMu} \cup {HealthMu(n) : n \in LockNodes}
\* No balancer state read.
NoSnap == <<>>

InitConc ==
    /\ locks = [l \in Mutexes |-> 0]
    /\ gprog = [g \in Goroutines |-> <<>>]
    /\ gsnap = [g \in Goroutines |-> NoSnap]

-----------------------------------------------------------------------------
\* Initial states.

Algos == {"rr", "wrr", "lc"}

InitBalancer ==
    /\ nodes = <<>>
    /\ cur = NilElem
    /\ reqCredit = 0
    /\ lcNodes = <<>>
    /\ detached = EmptyBag
    /\ panicked = FALSE
    /\ hist = <<>>
    /\ fresh = TRUE
    /\ live = {}
    /\ lcMinOK = TRUE
    /\ delMiss = FALSE
    /\ delCur = NoCursorHit
    /\ finDet = FALSE

InitGroup ==
    /\ ngNodes = [k \in Keys |-> NoNode]
    /\ healthy = [n \in Nodes |-> FALSE]
    /\ healthCheckerCancel = [n \in Nodes |-> FALSE]
    /\ ctxDone = [n \in Nodes |-> FALSE]
    /\ checker = [n \in Nodes |-> "none"]
    /\ everOK = {}
    /\ lastProbe = [n \in Nodes |-> "none"]
    /\ keyClash = FALSE
    /\ calls = 0
    /\ probes = 0

-----------------------------------------------------------------------------
\* A balancer driven directly through the Balancer interface, by a caller that
\* keeps the interface's contract: no key is added while it is in the pool.
\* The caller adds the nodes in any order, so the weights of a WRR pool are
\* drawn up to a renaming of the nodes.

InitBal ==
    /\ algo \in Algos
    /\ weight \in IF algo = "wrr"
                  THEN {[n \in Nodes |-> IF n \in PoolNodes THEN w[n] ELSE DefaultWeight[n]] :
                            w \in {v \in [PoolNodes -> Weights] : v["B"] <= v["C"] /\ v["C"] <= v["A"]}}
                  ELSE {DefaultWeight}
    /\ InitBalancer
    /\ InitGroup
    /\ InitEval
    /\ InitRouter
    /\ InitServer
    /\ InitConc

CallAddNode(n) ==
    /\ ~panicked
    /\ Key(n) \notin {Key(m) : m \in live}
    /\ Balancer_AddNode(n)
    /\ hist' = <<>>
    /\ fresh' = (fresh /\ hist = <<>>)
    /\ live' = live \cup {n}
    /\ UNCHANGED <<algo, weight, panicked, lcMinOK>>
    /\ delMiss' = FALSE
    /\ delCur' = NoCursorHit
    /\ finDet' = FALSE
    /\ UNCHANGED restVars
    /\ UNCHANGED groupVars

CallDeleteNode(k) ==
    /\ ~panicked
    /\ Balancer_DeleteNode(k)
    /\ hist' = <<>>
    /\ fresh' = FALSE
    /\ live' = {m \in live : Key(m) # k}
    /\ delMiss' = (k \notin PoolKeys)
    /\ delCur' = AfterCursor(k)
    /\ finDet' = FALSE
    /\ UNCHANGED <<algo, weight, panicked, lcMinOK>>
    /\ UNCHANGED restVars
    /\ UNCHANGED groupVars

\* Balancer.Balance is called; the last `cap` results are kept.
BalanceCall(cap) ==
    /\ ~panicked
    /\ algo = "lc" => InFlight < MaxInFlight
    /\ Balancer_Balance
    /\ hist' = Record(hist, BalanceRet, cap)
    /\ lcMinOK' = (lcMinOK /\ (algo = "lc" /\ Len(lcNodes) > 0
                                  => lcNodes[1].reqs = MinReqs(lcNodes)))
    /\ UNCHANGED <<algo, weight, panicked, fresh, live, delCur>>
    /\ delMiss' = FALSE
    /\ finDet' = FALSE
    /\ UNCHANGED restVars
    /\ UNCHANGED groupVars

Balance == BalanceCall(HistCap)

\* The context of a dispatched request is done: its monitorRequestFinish runs.
RequestFinishInHeap(p) ==
    /\ ~panicked
    /\ algo = "lc"
    /\ p \in 1 .. Len(lcNodes)
    /\ lcNodes[p].mon > 0
    /\ lcNodes' = monitorRequestFinishInHeap(p).lcNodes
    /\ detached' = monitorRequestFinishInHeap(p).detached
    /\ panicked' = monitorRequestFinishInHeap(p).panic
    /\ UNCHANGED <<algo, weight, nodes, cur, reqCredit, hist, fresh, live, lcMinOK, delCur>>
    /\ delMiss' = FALSE
    /\ finDet' = FALSE
    /\ UNCHANGED restVars
    /\ UNCHANGED groupVars

RequestFinishDetached(x) ==
    /\ ~panicked
    /\ algo = "lc"
    /\ x \in BagToSet(detached)
    /\ lcNodes' = monitorRequestFinishDetached(x).lcNodes
    /\ detached' = monitorRequestFinishDetached(x).detached
    /\ panicked' = monitorRequestFinishDetached(x).panic
    /\ UNCHANGED <<algo, weight, nodes, cur, reqCredit, hist, fresh, live, lcMinOK, delCur>>
    /\ delMiss' = FALSE
    /\ finDet' = TRUE
    /\ UNCHANGED restVars
    /\ UNCHANGED groupVars

NextBal ==
    \/ \E n \in PoolNodes : CallAddNode(n)
    \/ \E k \in {Key(n) : n \in PoolNodes} : CallDeleteNode(k)
    \/ Balance
    \/ \E p \in 1 .. Len(lcNodes) : RequestFinishInHeap(p)
    \/ \E x \in BagToSet(detached) : RequestFinishDetached(x)

SpecBal == InitBal /\ [][NextBal]_vars

-----------------------------------------------------------------------------
\* The node group (router.go) with the health checker of each node. Every
\* method below runs under ng.nodesMu from its first to its last effect, so it
\* is one step; the RoundTrip of a probe runs outside the lock.

\* The Node objects handed to NodeGroup.AddNode.
GroupNodes == {"A", "A2", "B"}

\* startNodeHealthChecker(n): the new values of healthCheckerCancel and checker.
startNodeHealthChecker(n) ==
    IF healthCheckerCancel[n]
    THEN [healthCheckerCancel |-> healthCheckerCancel, checker |-> checker]
    ELSE [healthCheckerCancel |-> [healthCheckerCancel EXCEPT ![n] = TRUE],
          checker |-> [checker EXCEPT ![n] = "select"]]

\* stopNodeHealthChecker(n), n not nil: the new value of ctxDone.
stopNodeHealthChecker(n) ==
    IF ~healthCheckerCancel[n] THEN ctxDone ELSE [ctxDone EXCEPT ![n] = TRUE]

\* NodeGroup.AddNode(n).
AddNode(n) ==
    /\ ~panicked
    /\ calls < MaxCalls
    /\ calls' = calls + 1
    /\ IF n = NoNode
       THEN UNCHANGED <<ngNodes, healthCheckerCancel, checker, keyClash>>
       ELSE /\ ngNodes' = [ngNodes EXCEPT ![Key(n)] = n]
            /\ keyClash' = (keyClash \/ ngNodes[Key(n)] # NoNode)
            /\ healthCheckerCancel' = startNodeHealthChecker(n).healthCheckerCancel
            /\ checker' = startNodeHealthChecker(n).checker
    /\ hist' = <<>>
    /\ UNCHANGED <<algo, weight, panicked, fresh, live, lcMinOK>>
    /\ UNCHANGED <<delMiss, delCur, finDet, restVars>>
    /\ UNCHANGED balVars
    /\ UNCHANGED <<healthy, ctxDone, everOK, lastProbe, probes>>

\* NodeGroup.DeleteNode(nk). With no node under nk, stopNodeHealthChecker is
\* handed a nil *Node and locks its healthMu: a nil pointer dereference.
DeleteNode(nk) ==
    /\ ~panicked
    /\ calls < MaxCalls
    /\ calls' = calls + 1
    /\ IF ngNodes[nk] = NoNode
       THEN /\ panicked' = TRUE
            /\ UNCHANGED balVars
            /\ UNCHANGED <<ngNodes, ctxDone>>
       ELSE /\ ctxDone' = stopNodeHealthChecker(ngNodes[nk])
            /\ Balancer_DeleteNode(nk)
            /\ ngNodes' = [ngNodes EXCEPT ![nk] = NoNode]
            /\ UNCHANGED panicked
    /\ hist' = <<>>
    /\ UNCHANGED <<algo, weight, fresh, live, lcMinOK>>
    /\ UNCHANGED <<delMiss, delCur, finDet, restVars>>
    /\ UNCHANGED <<healthy, healthCheckerCancel, checker, everOK, lastProbe, keyClash, probes>>

\* The checker goroutine of n, in its select: the ticker's channel is ready and
\* is the case chosen, so checkNodeHealth is called and its RoundTrip starts.
\* With ctx.Done() ready as well, select takes either case.
CheckerTick(n) ==
    /\ ~panicked
    /\ checker[n] = "select"
    /\ probes < MaxProbes
    /\ probes' = probes + 1
    /\ checker' = [checker EXCEPT ![n] = "roundtrip"]
    /\ hist' = <<>>
    /\ UNCHANGED <<algo, weight, panicked, fresh, live, lcMinOK>>
    /\ UNCHANGED <<delMiss, delCur, finDet, restVars>>
    /\ UNCHANGED balVars
    /\ UNCHANGED <<ngNodes, healthy, healthCheckerCancel, ctxDone, everOK, lastProbe, keyClash, calls>>

\* The checker goroutine of n, in its select: ctx.Done() is the case chosen.
CheckerStop(n) ==
    /\ ~panicked
    /\ checker[n] = "select"
    /\ ctxDone[n]
    /\ checker' = [checker EXCEPT ![n] = "stopped"]
    /\ hist' = <<>>
    /\ UNCHANGED <<algo, weight, panicked, fresh, live, lcMinOK>>
    /\ UNCHANGED <<delMiss, delCur, finDet, restVars>>
    /\ UNCHANGED balVars
    /\ UNCHANGED <<ngNodes, healthy, healthCheckerCancel, ctxDone, everOK, lastProbe, keyClash, calls, probes>>

\* checkNodeHealth, lines 185-202: the RoundTrip of the probe returns. res is
\* "ok" (no error, status 200) or "err" (an error, or another status); a request
\* whose context is cancelled returns an error.
RoundTripReturns(n, res) ==
    /\ ~panicked
    /\ checker[n] = "roundtrip"
    /\ ctxDone[n] => res = "err"
    /\ checker' = [checker EXCEPT ![n] = res]
    /\ everOK' = IF res = "ok" THEN everOK \cup {n} ELSE everOK
    /\ lastProbe' = [lastProbe EXCEPT ![n] = res]
    /\ hist' = <<>>
    /\ UNCHANGED <<algo, weight, panicked, fresh, live, lcMinOK>>
    /\ UNCHANGED <<delMiss, delCur, finDet, restVars>>
    /\ UNCHANGED balVars
    /\ UNCHANGED <<ngNodes, healthy, healthCheckerCancel, ctxDone, keyClash, calls, probes>>

checkNodeHealth_NoRecheck(n, res) ==
    IF healthy[n] /\ res = "err" THEN [healthy |-> FALSE, call |-> "delete"]
    ELSE IF ~healthy[n] /\ res = "ok" THEN [healthy |-> TRUE, call |-> "add"]
    ELSE [healthy |-> healthy[n], call |-> "none"]

checkNodeHealth_FlagKeptOnFail(n, res) ==
    IF ngNodes[Key(n)] = NoNode THEN [healthy |-> healthy[n], call |-> "none"]
    ELSE IF healthy[n] /\ res = "err" THEN [healthy |-> TRUE, call |-> "delete"]
    ELSE IF ~healthy[n] /\ res = "ok" THEN [healthy |-> TRUE, call |-> "add"]
    ELSE [healthy |-> healthy[n], call |-> "none"]

checkNodeHealth_AddOnAnyResult(n, res) ==
    IF ngNodes[Key(n)] = NoNode THEN [healthy |-> healthy[n], call |-> "none"]
    ELSE IF healthy[n] /\ res = "err" THEN [healthy |-> FALSE, call |-> "delete"]
    ELSE IF ~healthy[n] THEN [healthy |-> TRUE, call |-> "add"]
    ELSE [healthy |-> healthy[n], call |-> "none"]

\* checkNodeHealth, lines 210-230, for a probe of n that returned res: what it
\* does to the node's healthy flag and to the balancer ("add", "delete", "none").
checkNodeHealth(n, res) ==
    IF ngNodes[Key(n)] = NoNode THEN [healthy |-> healthy[n], call |-> "none"]
    ELSE IF healthy[n] /\ res = "err" THEN [healthy |-> FALSE, call |-> "delete"]
    ELSE IF ~healthy[n] /\ res = "ok" THEN [healthy |-> TRUE, call |-> "add"]
    ELSE [healthy |-> healthy[n], call |-> "none"]

\* The checker goroutine of n takes ng.nodesMu and applies the probe's result.
Transition(n) ==
    /\ ~panicked
    /\ checker[n] \in {"ok", "err"}
    /\ LET t == checkNodeHealth(n, checker[n]) IN
       /\ healthy' = [healthy EXCEPT ![n] = t.healthy]
       /\ CASE t.call = "add" -> Balancer_AddNode(n)
            [] t.call = "delete" -> Balancer_DeleteNode(Key(n))
            [] OTHER -> UNCHANGED balVars
    /\ checker' = [checker EXCEPT ![n] = "select"]
    /\ hist' = <<>>
    /\ UNCHANGED <<algo, weight, panicked, fresh, live, lcMinOK>>
    /\ UNCHANGED <<delMiss, delCur, finDet, restVars>>
    /\ UNCHANGED <<ngNodes, healthCheckerCancel, ctxDone, everOK, lastProbe, keyClash, calls, probes>>

\* roundTrip: a request is forwarded to the group, which asks its balancer.
GroupBalance ==
    /\ algo = "lc" => InFlight < MaxGroupInFlight
    /\ BalanceCall(1)

InitNG ==
    /\ algo \in Algos
    /\ weight = DefaultWeight
    /\ InitBalancer
    /\ InitGroup
    /\ InitEval
    /\ InitRouter
    /\ InitServer
    /\ InitConc

NextNG ==
    \/ \E n \in GroupNodes \cup {NoNode} : AddNode(n)
    \/ \E k \in {Key(n) : n \in GroupNodes} : DeleteNode(k)
    \/ \E n \in GroupNodes : CheckerTick(n)
    \/ \E n \in GroupNodes : CheckerStop(n)
    \/ \E n \in GroupNodes, res \in {"ok", "err"} : RoundTripReturns(n, res)
    \/ \E n \in GroupNodes : Transition(n)
    \/ GroupBalance
    \/ \E p \in 1 .. Len(lcNodes) : RequestFinishInHeap(p)
    \/ \E x \in BagToSet(detached) : RequestFinishDetached(x)

SpecNG == InitNG /\ [][NextNG]_vars

-----------------------------------------------------------------------------
\* The evaluator with its rules added and deleted and requests handled.

\* coreVars: what the evaluator, the router and the listeners leave alone.
coreVars == <<algo, weight, balVars, panicked, ghostVars, groupVars, delMiss, delCur, finDet, concVars>>

\* Evaluator.AddRule(r).
AddRule(n) ==
    /\ Len(e_r) < MaxRules
    /\ e_r' = EvalAddRule(n)
    /\ ins' = Append(ins, n)
    /\ req' = NoRequest
    /\ evald' = <<>>
    /\ resp' = NoResponse
    /\ UNCHANGED <<ruleDeleted, coreVars, routerVars, serverVars>>

\* Evaluator.DeleteRule(r).
DeleteRule(n) ==
    /\ e_r' = EvalDeleteRule(n)
    /\ ins' = RemoveFirst(ins, n)
    /\ ruleDeleted' = (ruleDeleted \/ e_r' # e_r)
    /\ req' = NoRequest
    /\ evald' = <<>>
    /\ resp' = NoResponse
    /\ UNCHANGED <<coreVars, routerVars, serverVars>>

\* A request goes through Evaluator.Handler.
Evaluator_Handler(q) ==
    /\ req' = q
    /\ evald' = evaluateRequest(q).log
    /\ resp' = EvalHandler(q)
    /\ UNCHANGED <<e_r, ins, ruleDeleted, coreVars, routerVars, serverVars>>

InitE ==
    /\ InitNG
    /\ algo = "rr"

NextE ==
    \/ \E n \in RuleNames : AddRule(n)
    \/ \E n \in RuleNames : DeleteRule(n)
    \/ \E q \in Requests : Evaluator_Handler(q)

SpecEval == InitE /\ [][NextE]_vars

-----------------------------------------------------------------------------
\* The router (Router.Handler and NodeGroup.roundTrip) serving one request at
\* a time on a group "g1", while the group's pool changes. eval is the
\* EvaluationResult of the request: "none" (not in the context), "unknown"
\* (a group the router does not have) or "g1".

\* Router.Handler, lines 311-321: the evaluation result is read and the group looked up.
Router_Receive(e) ==
    /\ rpc \in {"idle", "done"}
    /\ rq' = [eval |-> e, node |-> NoNode, fwd |-> ""]
    /\ rcalls' = 0
    /\ rtried' = <<>>
    /\ IF e = "g1"
       THEN rpc' = "roundTrip" /\ rresp' = NoResponse
       ELSE rpc' = "done" /\ rresp' = Response(500, "", "", FALSE, "")
    /\ UNCHANGED <<coreVars, evalVars, serverVars>>

\* NodeGroup.roundTrip, lines 239-242: the balancer is asked for a node.
Router_Balance ==
    /\ rpc = "roundTrip"
    /\ algo = "lc" => InFlight < MaxInFlight
    /\ Balancer_Balance
    /\ rcalls' = rcalls + 1
    /\ rq' = [rq EXCEPT !.node = BalanceRet]
    /\ IF BalanceRet = NoNode
       THEN rpc' = "done" /\ rresp' = Response(502, "bad gateway", "", FALSE, "")
       ELSE rpc' = "forward" /\ UNCHANGED rresp
    /\ UNCHANGED <<algo, weight, panicked, ghostVars, groupVars, delMiss, delCur, finDet, rtried, evalVars, serverVars, concVars>>

Router_Forward_Retry(f) ==
    /\ rpc = "forward"
    /\ rtried' = Append(rtried, rq.node)
    /\ rq' = [rq EXCEPT !.fwd = f]
    /\ IF f = "err"
       THEN rpc' = "roundTrip" /\ UNCHANGED rresp
       ELSE rpc' = "done" /\ rresp' = Response(200, "", "", TRUE, "")
    /\ UNCHANGED <<coreVars, rcalls, evalVars, serverVars>>

\* NodeGroup.roundTrip, lines 244-256, and Router.Handler, lines 330-350: the
\* request is sent to the node; f is "err" (transport.RoundTrip returns an
\* error) or "ok" (the node answers, here with status 200).
Router_Forward(f) ==
    /\ rpc = "forward"
    /\ rtried' = Append(rtried, rq.node)
    /\ rq' = [rq EXCEPT !.fwd = f]
    /\ rpc' = "done"
    /\ IF f = "err"
       THEN rresp' = Response(502, "bad gateway", "", FALSE, "")
       ELSE rresp' = Response(200, "", "", TRUE, "")
    /\ UNCHANGED <<coreVars, rcalls, evalVars, serverVars>>

InitR == InitNG

NextR ==
    \/ \E n \in PoolNodes : CallAddNode(n)
    \/ \E k \in {Key(n) : n \in PoolNodes} : CallDeleteNode(k)
    \/ \E e \in {"none", "unknown", "g1"} : Router_Receive(e)
    \/ Router_Balance
    \/ \E f \in {"ok", "err"} : Router_Forward(f)
    \/ \E p \in 1 .. Len(lcNodes) : RequestFinishInHeap(p)
    \/ \E x \in BagToSet(detached) : RequestFinishDetached(x)

SpecRouter == InitR /\ [][NextR]_vars

-----------------------------------------------------------------------------
\* The listeners from the signal to the end of the process (server.go, lb.go).
\* A listener is "serving" until its waitForShutdown takes the signal, then
\* "shutdown" while server.Shutdown waits for its requests, then "returned"
\* (Shutdown returned nil, ListenAndServe returned, wg.Done ran) or "timedout"
\* (the context of Shutdown expired first and waitForShutdown panicked).

\* The server of a serving listener accepts a request.
RequestArrives(l) ==
    /\ process = "running"
    /\ lstate[l] = "serving"
    /\ inflight[l] < MaxRequests
    /\ inflight' = [inflight EXCEPT ![l] = @ + 1]
    /\ UNCHANGED <<signalled, lstate, process, coreVars, evalVars, routerVars>>

\* A request ends.
RequestDone(l) ==
    /\ process = "running"
    /\ inflight[l] > 0
    /\ inflight' = [inflight EXCEPT ![l] = @ - 1]
    /\ UNCHANGED <<signalled, lstate, process, coreVars, evalVars, routerVars>>

\* SIGINT or SIGTERM is delivered to the quit channel of every listener.
Signal ==
    /\ process = "running"
    /\ ~signalled
    /\ signalled' = TRUE
    /\ UNCHANGED <<lstate, inflight, process, coreVars, evalVars, routerVars>>

\* waitForShutdown, lines 133-140: <-quit returns and server.Shutdown is called.
BeginShutdown(l) ==
    /\ process = "running"
    /\ signalled
    /\ lstate[l] = "serving"
    /\ lstate' = [lstate EXCEPT ![l] = "shutdown"]
    /\ UNCHANGED <<signalled, inflight, process, coreVars, evalVars, routerVars>>

\* server.Shutdown returns nil: no request is left. ListenAndServe returns nil
\* and the goroutine of listenerControl ends with wg.Done.
ShutdownReturns(l) ==
    /\ process = "running"
    /\ lstate[l] = "shutdown"
    /\ inflight[l] = 0
    /\ lstate' = [lstate EXCEPT ![l] = "returned"]
    /\ UNCHANGED <<signalled, inflight, process, coreVars, evalVars, routerVars>>

\* A step that takes no time to speak of is pending: a listener has the signal
\* to take, or a Shutdown with no request left has to return.
Prompt ==
    \E m \in ServerListeners :
        \/ lstate[m] = "serving"
        \/ lstate[m] = "shutdown" /\ inflight[m] = 0

\* The shutdownTimeout seconds of the context are over with requests left:
\* server.Shutdown returns the context's error and waitForShutdown panics
\* (line 141), which terminates the process.
ShutdownTimeout(l) ==
    /\ process = "running"
    /\ lstate[l] = "shutdown"
    /\ inflight[l] > 0
    /\ ~Prompt
    /\ lstate' = [lstate EXCEPT ![l] = "timedout"]
    /\ process' = "panic"
    /\ UNCHANGED <<signalled, inflight, coreVars, evalVars, routerVars>>

\* listenerControl: wg.Wait returns and so do listenerControl and Start.
ListenerControlReturns ==
    /\ process = "running"
    /\ \A l \in ServerListeners : lstate[l] = "returned"
    /\ process' = "returned"
    /\ UNCHANGED <<signalled, lstate, inflight, coreVars, evalVars, routerVars>>

InitS ==
    /\ InitNG
    /\ algo = "rr"

NextS ==
    \/ \E l \in ServerListeners : RequestArrives(l)
    \/ \E l \in ServerListeners : RequestDone(l)
    \/ Signal
    \/ \E l \in ServerListeners : BeginShutdown(l)
    \/ \E l \in ServerListeners : ShutdownReturns(l)
    \/ \E l \in ServerListeners : ShutdownTimeout(l)
    \/ ListenerControlReturns

SpecServer == InitS /\ [][NextS]_vars

-----------------------------------------------------------------------------
\* Goroutines and mutexes. A call in progress is the sequence of steps it has
\* left: Lock and Unlock of a sync.Mutex, the body of a balancer method (Write),
\* the end of the process by a panic nobody recovers (Panic).

NoOp == [kind |-> "none", arg |-> NoNode]
Instr(i, l, op) == [i |-> i, l |-> l, op |-> op]
\* All variables but the mutexes, the goroutines and panicked.
dataVars == <<algo, weight, balVars, ghostVars, groupVars, delMiss, delCur, finDet,
              evalVars, routerVars, serverVars>>

GLock_NoWait(g) ==
    /\ ~panicked
    /\ gprog[g] # <<>>
    /\ Head(gprog[g]).i = "Lock"
    /\ locks' = [locks EXCEPT ![Head(gprog[g]).l] = g]
    /\ gsnap' = IF Head(gprog[g]).l = Mu THEN [gsnap EXCEPT ![g] = balVars] ELSE gsnap
    /\ gprog' = [gprog EXCEPT ![g] = Tail(@)]
    /\ UNCHANGED <<dataVars, panicked>>

\* mu.Lock() returns: the mutex was free and the goroutine holds it. What the
\* goroutine reads of the balancer from here on is the state it finds now.
GLock(g) ==
    /\ ~panicked
    /\ gprog[g] # <<>>
    /\ Head(gprog[g]).i = "Lock"
    /\ locks[Head(gprog[g]).l] = 0
    /\ locks' = [locks EXCEPT ![Head(gprog[g]).l] = g]
    /\ gsnap' = IF Head(gprog[g]).l = Mu THEN [gsnap EXCEPT ![g] = balVars] ELSE gsnap
    /\ gprog' = [gprog EXCEPT ![g] = Tail(@)]
    /\ UNCHANGED <<dataVars, panicked>>

\* mu.Unlock(), deferred or at the end of the callee.
GUnlock(g) ==
    /\ ~panicked
    /\ gprog[g] # <<>>
    /\ Head(gprog[g]).i = "Unlock"
    /\ locks' = [locks EXCEPT ![Head(gprog[g]).l] = 0]
    /\ gsnap' = IF Head(gprog[g]).l = Mu THEN [gsnap EXCEPT ![g] = NoSnap] ELSE gsnap
    /\ gprog' = [gprog EXCEPT ![g] = Tail(@)]
    /\ UNCHANGED <<dataVars, panicked>>

\* The panic of the goroutine, its deferred calls made, ends the process.
GPanic(g) ==
    /\ ~panicked
    /\ gprog[g] # <<>>
    /\ Head(gprog[g]).i = "Panic"
    /\ panicked' = TRUE
    /\ gprog' = [gprog EXCEPT ![g] = Tail(@)]
    /\ UNCHANGED <<dataVars, locks, gsnap>>

-----------------------------------------------------------------------------
\* A balancer called by several goroutines at a time (rr.go, lc.go): every
\* method is mu.Lock(), defer mu.Unlock(), body.

\* The Node objects the goroutines add.
ConcNodes == {"A", "B"}
BalancerOp(kind, arg) == [kind |-> kind, arg |-> arg]
ConcOps ==
    {BalancerOp("add", n) : n \in ConcNodes}
        \cup {BalancerOp("del", Key(n)) : n \in ConcNodes}
        \cup {BalancerOp("bal", NoNode), BalancerOp("fin", NoNode)}
\* AddNode, DeleteNode, Balance, monitorRequestFinish: lock, body, deferred unlock.
BalancerCall(op) == <<Instr("Lock", Mu, NoOp), Instr("Write", Mu, op), Instr("Unlock", Mu, NoOp)>>
\* The calls of kind k whose body has not run.
Pending(k) ==
    {g \in Goroutines : \E i \in 1 .. Len(gprog[g]) : gprog[g][i].i = "Write" /\ gprog[g][i].op.kind = k}
PendingAdd(key) ==
    \E g \in Goroutines : \E i \in 1 .. Len(gprog[g]) :
        gprog[g][i].i = "Write" /\ gprog[g][i].op.kind = "add" /\ Key(gprog[g][i].op.arg) = key

\* A goroutine calls a method of the balancer. The callers keep the interface's
\* contract (no key is added while it is in the pool or being added), and a
\* monitorRequestFinish runs for a request that was dispatched.
ConcStart(g, op) ==
    /\ ~panicked
    /\ gprog[g] = <<>>
    /\ op.kind = "add" => (Key(op.arg) \notin {Key(m) : m \in live} /\ ~PendingAdd(Key(op.arg)))
    /\ op.kind = "bal" => (algo = "lc" => InFlight + Cardinality(Pending("bal")) < MaxInFlight)
    /\ op.kind = "fin" => (algo = "lc" /\ Cardinality(Pending("fin")) < InFlight)
    /\ gprog' = [gprog EXCEPT ![g] = BalancerCall(op)]
    /\ UNCHANGED <<dataVars, panicked, locks, gsnap>>

\* The body of the method runs, under the mutex.
GWrite(g) ==
    /\ ~panicked
    /\ gprog[g] # <<>>
    /\ Head(gprog[g]).i = "Write"
    /\ LET op == Head(gprog[g]).op IN
       CASE op.kind = "add" ->
                /\ Balancer_AddNode(op.arg)
                /\ hist' = <<>>
                /\ fresh' = (fresh /\ hist = <<>>)
                /\ live' = live \cup {op.arg}
                /\ UNCHANGED <<lcMinOK, panicked>>
         [] op.kind = "del" ->
                /\ Balancer_DeleteNode(op.arg)
                /\ hist' = <<>>
                /\ fresh' = FALSE
                /\ live' = {m \in live : Key(m) # op.arg}
                /\ UNCHANGED <<lcMinOK, panicked>>
         [] op.kind = "bal" ->
                /\ Balancer_Balance
                /\ hist' = Record(hist, BalanceRet, HistCap)
                /\ lcMinOK' = (lcMinOK /\ (algo = "lc" /\ Len(lcNodes) > 0
                                              => lcNodes[1].reqs = MinReqs(lcNodes)))
                /\ UNCHANGED <<fresh, live, panicked>>
         [] op.kind = "fin" ->
                /\ \/ \E p \in 1 .. Len(lcNodes) :
                          /\ lcNodes[p].mon > 0
                          /\ lcNodes' = monitorRequestFinishInHeap(p).lcNodes
                          /\ detached' = monitorRequestFinishInHeap(p).detached
                          /\ panicked' = monitorRequestFinishInHeap(p).panic
                   \/ \E x \in BagToSet(detached) :
                          /\ lcNodes' = monitorRequestFinishDetached(x).lcNodes
                          /\ detached' = monitorRequestFinishDetached(x).detached
                          /\ panicked' = monitorRequestFinishDetached(x).panic
                /\ UNCHANGED <<nodes, cur, reqCredit, hist, fresh, live, lcMinOK>>
    /\ gprog' = [gprog EXCEPT ![g] = Tail(@)]
    /\ UNCHANGED <<algo, weight, groupVars, delMiss, delCur, finDet, evalVars, routerVars, serverVars>>
    /\ UNCHANGED <<locks, gsnap>>

InitC == InitNG

NextC ==
    \/ \E g \in Goroutines, op \in ConcOps : ConcStart(g, op)
    \/ \E g \in Goroutines : GLock(g)
    \/ \E g \in Goroutines : GWrite(g)
    \/ \E g \in Goroutines : GUnlock(g)

SpecConc == InitC /\ [][NextC]_vars

-----------------------------------------------------------------------------
\* The mutexes a call takes and releases, in the order of the code (router.go,
\* rr.go, lc.go), whatever the data: the branches are all tried.

Lock(l) == Instr("Lock", l, NoOp)
Unlock(l) == Instr("Unlock", l, NoOp)

\* NodeGroup.AddNode(n): nodesMu, then startNodeHealthChecker takes n.healthMu.
AddNodeLocks(n) == <<Lock(NodesMu), Lock(HealthMu(n)), Unlock(HealthMu(n)), Unlock(NodesMu)>>
\* NodeGroup.DeleteNode of the key of n: nodesMu, stopNodeHealthChecker takes
\* n.healthMu, Balancer.DeleteNode takes mu.
DeleteNodeLocks(n) ==
    <<Lock(NodesMu), Lock(HealthMu(n)), Unlock(HealthMu(n)), Lock(Mu), Unlock(Mu), Unlock(NodesMu)>>
\* NodeGroup.DeleteNode of a key the group does not hold: stopNodeHealthChecker
\* dereferences a nil *Node; the deferred nodesMu.Unlock runs and the process ends.
DeleteNodeMissingLocks == <<Lock(NodesMu), Unlock(NodesMu), Instr("Panic", NodesMu, NoOp)>>
checkNodeHealthLocks_HealthMuFirst(n, branch) ==
    CASE branch = "gone" -> <<Lock(NodesMu), Unlock(NodesMu)>>
      [] branch = "none" -> <<Lock(HealthMu(n)), Lock(NodesMu), Unlock(NodesMu), Unlock(HealthMu(n))>>
      [] branch = "edge" -> <<Lock(HealthMu(n)), Lock(NodesMu), Lock(Mu), Unlock(Mu),
                              Unlock(NodesMu), Unlock(HealthMu(n))>>
\* checkNodeHealth once the RoundTrip is over: nodesMu; the key is gone and it
\* returns ("gone"), or it takes n.healthMu and returns ("none") or calls
\* Balancer.AddNode / Balancer.DeleteNode, which takes mu ("edge").
checkNodeHealthLocks(n, branch) ==
    CASE branch = "gone" -> <<Lock(NodesMu), Unlock(NodesMu)>>
      [] branch = "none" -> <<Lock(NodesMu), Lock(HealthMu(n)), Unlock(HealthMu(n)), Unlock(NodesMu)>>
      [] branch = "edge" -> <<Lock(NodesMu), Lock(HealthMu(n)), Lock(Mu), Unlock(Mu),
                              Unlock(HealthMu(n)), Unlock(NodesMu)>>
\* Balancer.Balance from roundTrip, and LC.monitorRequestFinish.
BalanceLocks == <<Lock(Mu), Unlock(Mu)>>
LockPrograms ==
    {AddNodeLocks(n) : n \in LockNodes}
        \cup {DeleteNodeLocks(n) : n \in LockNodes}
        \cup {DeleteNodeMissingLocks}
        \cup {checkNodeHealthLocks(n, b) : n \in LockNodes, b \in {"gone", "none", "edge"}}
        \cup {BalanceLocks}

\* A goroutine starts one of the calls.
LockStart(g, prog) ==
    /\ ~panicked
    /\ gprog[g] = <<>>
    /\ gprog' = [gprog EXCEPT ![g] = prog]
    /\ UNCHANGED <<dataVars, panicked, locks, gsnap>>

InitL ==
    /\ InitNG
    /\ algo = "lc"

GStep(g) == GLock(g) \/ GUnlock(g) \/ GPanic(g)

NextL ==
    \/ \E g \in Goroutines, prog \in LockPrograms : LockStart(g, prog)
    \/ \E g \in Goroutines : GLock(g)
    \/ \E g \in Goroutines : GUnlock(g)
    \/ \E g \in Goroutines : GPanic(g)

SpecLock == InitL /\ [][NextL]_vars
\* sync.Mutex hands the mutex to a goroutine that waits for it (starvation
\* mode), and a goroutine that can run does: strong fairness of every
\* goroutine's steps.
SpecLockFair == SpecLock /\ \A g \in Goroutines : SF_vars(GStep(g))

-----------------------------------------------------------------------------
\* Properties of a balancer driven directly (SpecBal).

\* C1: for RR, WRR and LC, whatever AddNode/DeleteNode/Balance calls were made
\* (no key added while it is in the pool), the last Balance returned nil or a
\* node that was added and whose key was not deleted since.
C1_BalanceReturnsLiveNode ==
    hist # <<>> => (Last(hist) = NoNode \/ Last(hist) \in live)

\* A Balance that follows a DeleteNode returned one of the two nodes left.
C1_Witness ==
    /\ ~fresh
    /\ Cardinality(live) = 2
    /\ hist # <<>>
    /\ Last(hist) \in live

\* Place of node n in the list (0: not there).
IndexOf(l, n) == IF \E i \in 1 .. Len(l) : l[i] = n THEN CHOOSE i \in 1 .. Len(l) : l[i] = n ELSE 0
\* Number of places of hist[from .. from + len - 1] that hold n.
CountIn(h, from, len, n) == Cardinality({i \in from .. (from + len - 1) : h[i] = n})

\* C6: an RR pool of N nodes, any cursor position: consecutive Balance calls
\* with no AddNode/DeleteNode in between return the nodes in cyclic insertion
\* order, and any N*k of them return each node exactly k times.
C6_RRFair ==
    (algo = "rr" /\ Len(nodes) > 0) =>
        LET N == Len(nodes) IN
        /\ \A i \in 1 .. (Len(hist) - 1) :
               /\ IndexOf(nodes, hist[i]) # 0
               /\ hist[i + 1] = nodes[(IndexOf(nodes, hist[i]) % N) + 1]
        /\ \A k \in 1 .. MaxPasses : \A s \in 1 .. (Len(hist) - N * k + 1) :
               \A i \in 1 .. N : CountIn(hist, s, N * k, nodes[i]) = k

\* 2N calls on a pool of three nodes whose cursor had been moved by a DeleteNode.
C6_Witness ==
    /\ algo = "rr"
    /\ ~fresh
    /\ Len(nodes) = 3
    /\ Len(hist) = 6
    /\ hist[1] # nodes[1]

\* C7: a WRR pool with weights >= 1, any cursor/credit state: every window of
\* sum(weights) consecutive Balance calls with no AddNode/DeleteNode in between
\* returns node i exactly weight_i times.
C7_WRRWindow ==
    (algo = "wrr" /\ Len(nodes) > 0 /\ \A i \in 1 .. Len(nodes) : weight[nodes[i]] >= 1) =>
        LET S == SumWeights(nodes) IN
        \A s \in 1 .. (Len(hist) - S + 1) :
            \A i \in 1 .. Len(nodes) : CountIn(hist, s, S, nodes[i]) = weight[nodes[i]]

\* A window that starts in the middle of a node's run, after a DeleteNode.
C7_Witness ==
    /\ algo = "wrr"
    /\ ~fresh
    /\ Len(nodes) = 2
    /\ weight[nodes[1]] = 2 /\ weight[nodes[2]] = 3
    /\ Len(hist) = 6
    /\ hist[1] = nodes[2] /\ hist[2] = nodes[1]

\* The node of the j-th call of a pass over list l (weights >= 1).
RECURSIVE PassNode(_, _)
PassNode(l, j) == IF j <= weight[Head(l)] THEN Head(l) ELSE PassNode(Tail(l), j - weight[Head(l)])

\* C8: a freshly built WRR balancer (weights >= 1): the calls return the nodes
\* in insertion order, node i weight_i times in a row, and the call after a full
\* pass starts again at the head.
C8_WRRFreshPass ==
    (algo = "wrr" /\ fresh /\ Len(nodes) > 0 /\ Len(hist) < HistCap
        /\ \A i \in 1 .. Len(nodes) : weight[nodes[i]] >= 1) =>
        \A j \in 1 .. Len(hist) : hist[j] = PassNode(nodes, ((j - 1) % SumWeights(nodes)) + 1)

\* The scenario A(3), B(1), C(2): A, A, A, B, C, C, then A.
C8_Witness ==
    /\ algo = "wrr"
    /\ fresh
    /\ nodes = <<"A", "B", "C">>
    /\ weight["A"] = 3 /\ weight["B"] = 1 /\ weight["C"] = 2
    /\ hist = <<"A", "A", "A", "B", "C", "C", "A">>

RECURSIVE SumReqs(_)
SumReqs(h) == IF Len(h) = 0 THEN 0 ELSE Head(h).reqs + SumReqs(Tail(h))
\* Dispatches that have not completed, made to node n through a nodeWR that left the heap.
RECURSIVE BagMonOf(_, _)
BagMonOf(b, n) ==
    IF BagToSet(b) = {} THEN 0
    ELSE LET x == CHOOSE y \in BagToSet(b) : TRUE
         IN (IF x.node = n THEN x.mon * CopiesIn(x, b) ELSE 0)
            + BagMonOf([y \in (DOMAIN b) \ {x} |-> b[y]], n)
\* Dispatches to node n that have not completed.
Outstanding(n) ==
    SumMon(SelectSeq(lcNodes, LAMBDA x : x.node = n)) + BagMonOf(detached, n)
RECURSIVE SumOver(_, _)
SumOver(S, f) ==
    IF S = {} THEN 0
    ELSE LET x == CHOOSE y \in S : TRUE IN f[x] + SumOver(S \ {x}, f)

\* C10: the reqs counters of the heap entries add up to the number of
\* dispatches, not completed yet, to the nodes that are in the pool.
C10_SumIsOutstanding ==
    algo = "lc" =>
        SumReqs(lcNodes) = SumOver(Pool, [n \in Nodes |-> Outstanding(n)])

\* C11: for RR, WRR and LC, Balance returns nil exactly if the pool holds no node.
C11_NilIffPoolEmpty ==
    hist # <<>> => (Last(hist) = NoNode <=> Pool = {})

\* Balance returned nil on a pool that a DeleteNode had emptied.
C11_Witness ==
    /\ ~fresh
    /\ hist # <<>>
    /\ Last(hist) = NoNode
    /\ Pool = {}

\* C12: for RR, WRR and LC, DeleteNode with a key that is not in the pool
\* leaves the node sequence or heap, the cursor, the credit and the in-flight
\* counters as they were (so does a second DeleteNode of a key).
C12_DeleteMissingKeyNoEffect ==
    [][\A k \in Keys : (k \notin PoolKeys /\ CallDeleteNode(k)) => UNCHANGED balVars]_vars

\* A DeleteNode of a missing key was just made on a WRR pool in the middle of a node's run.
C12_Witness ==
    /\ delMiss
    /\ algo = "wrr"
    /\ cur # NilElem
    /\ reqCredit > 0

\* The cursor designates after the step the element it designated before.
SameCursor ==
    /\ cur'.Value = cur.Value
    /\ cur = NilElem => cur' = NilElem
    /\ cur.pos >= 1 => (cur'.pos \in 1 .. Len(nodes') /\ nodes'[cur'.pos] = cur.Value)
\* DeleteNode(k) removes an element and that element is the one the cursor points at.
HitsCursor(k) == FirstWithKey(nodes, k) # 0 /\ cur.pos = FirstWithKey(nodes, k)
\* The node at place p of the list, j - 1 Balance calls further in cyclic order.
Cyclic(l, p, j) == l[((p + j - 2) % Len(l)) + 1]

\* C24: once RR.DeleteNode has removed the element the cursor pointed at, the
\* cursor is null if no node is left, and else points at the node that followed
\* the removed one (the head after the tail): the Balance calls that follow
\* return that node and then the nodes after it in cyclic order, none skipped
\* and none twice. A DeleteNode of another element leaves the cursor on the
\* element it was on.
C24_RRDeleteCursorToSuccessor ==
    /\ [](algo = "rr" /\ delCur # NoCursorHit =>
              IF delCur = NoNode THEN nodes = <<>> /\ cur = NilElem
              ELSE LET p == IndexOf(nodes, delCur) IN
                   /\ p # 0
                   /\ hist = <<>> => cur = Elem(nodes, p)
                   /\ Len(hist) < HistCap =>
                          \A j \in 1 .. Len(hist) : hist[j] = Cyclic(nodes, p, j))
    /\ [][algo = "rr" =>
              \A k \in Keys : (CallDeleteNode(k) /\ ~HitsCursor(k)) => SameCursor]_vars

\* The cursor element was removed in the middle of a pass and the calls that
\* followed went from its successor to the tail and on to the head.
C24_Witness ==
    /\ algo = "rr"
    /\ delCur \notin {NoCursorHit, NoNode}
    /\ Len(nodes) = 2
    /\ delCur = nodes[2]
    /\ Len(hist) >= 3
    /\ Len(hist) < HistCap

\* C25: once WRR.DeleteNode has removed the element the cursor pointed at and
\* nodes are left, the cursor points at the node that followed the removed one
\* (the head after the tail) and the credit is that node's weight: the Balance
\* calls that follow return it weight times (weight >= 1) and then the node
\* after it. A DeleteNode of another element leaves cursor and credit as they were.
C25_WRRDeleteCursorToSuccessor ==
    /\ [](algo = "wrr" /\ delCur \notin {NoCursorHit, NoNode} =>
              LET p == IndexOf(nodes, delCur)
                  w == weight[delCur]
              IN /\ p # 0
                 /\ hist = <<>> => (cur = Elem(nodes, p) /\ reqCredit = w)
                 /\ (w >= 1 /\ Len(hist) < HistCap) =>
                        \A j \in 1 .. Len(hist) :
                            /\ j <= w => hist[j] = delCur
                            /\ j = w + 1 => hist[j] = Cyclic(nodes, p, 2))
    /\ [][algo = "wrr" =>
              \A k \in Keys : (CallDeleteNode(k) /\ ~HitsCursor(k)) =>
                  (SameCursor /\ reqCredit' = reqCredit)]_vars

\* The cursor element was removed with part of its credit used; its successor,
\* of weight 3, was then returned three times and the other node after it.
C25_Witness ==
    /\ algo = "wrr"
    /\ delCur \notin {NoCursorHit, NoNode}
    /\ weight[delCur] = 3
    /\ Len(nodes) = 2
    /\ Len(hist) >= 4
    /\ Len(hist) < HistCap
    /\ hist[4] # delCur

\* C26: in a WRR pool, whatever the weights and the cursor/credit state, every
\* window of one pass of consecutive Balance calls (no AddNode/DeleteNode in
\* between) returns each node of weight <= 1 exactly once, and with more than
\* one node in the pool no such node is returned twice in a row.
C26_LightNodeOncePerPass ==
    (algo = "wrr" /\ Len(nodes) > 0) =>
        LET S == SumWeights(nodes) IN
        \A i \in 1 .. Len(nodes) :
            weight[nodes[i]] <= 1 =>
                /\ \A s \in 1 .. (Len(hist) - S + 1) : CountIn(hist, s, S, nodes[i]) = 1
                /\ Len(nodes) > 1 =>
                       \A j \in 1 .. (Len(hist) - 1) : ~(hist[j] = nodes[i] /\ hist[j + 1] = nodes[i])

\* Two passes over a pool whose head has weight 0, whose middle node has
\* weight -1 and whose tail has weight 1, after a DeleteNode.
C26_Witness ==
    /\ algo = "wrr"
    /\ ~fresh
    /\ Len(nodes) = 3
    /\ weight[nodes[1]] = 0 /\ weight[nodes[2]] = -1 /\ weight[nodes[3]] = 1
    /\ Len(hist) = 7

\* C27: the monitorRequestFinish of a request whose nodeWR left the heap
\* (LC.DeleteNode removed the node after the dispatch) leaves the heap as it
\* is, entries, order and reqs counters, and does not panic.
C27_DetachedFinishLeavesHeap ==
    [][\A x \in BagToSet(detached) :
           RequestFinishDetached(x) => (lcNodes' = lcNodes /\ ~panicked')]_vars

\* Such a completion was just made with two nodes in the heap, one of them with
\* a request outstanding.
C27_Witness ==
    /\ algo = "lc"
    /\ finDet
    /\ ~panicked
    /\ Len(lcNodes) = 2
    /\ SumReqs(lcNodes) >= 1

\* C32: in a WRR balancer whose nodes all have weight >= 1, after any sequence
\* of AddNode, DeleteNode and Balance the cursor is null or an element of the
\* list, and when it is not null 1 <= reqCredit <= weight of the cursor's node.
C32_WRRCursorAndCredit ==
    (algo = "wrr" /\ \A n \in PoolNodes : weight[n] >= 1) =>
        \/ cur = NilElem
        \/ /\ cur.pos \in 1 .. Len(nodes)
           /\ nodes[cur.pos] = cur.Value
           /\ 1 <= reqCredit
           /\ reqCredit <= weight[cur.Value]

\* A DeleteNode moved the cursor to the successor, of weight 3, and two Balance
\* calls have used two of its credits.
C32_Witness ==
    /\ algo = "wrr"
    /\ \A n \in PoolNodes : weight[n] >= 1
    /\ delCur \notin {NoCursorHit, NoNode}
    /\ Len(hist) = 2
    /\ cur # NilElem
    /\ cur.Value = delCur
    /\ weight[delCur] = 3
    /\ reqCredit = 1

-----------------------------------------------------------------------------
\* Properties of the evaluator (SpecEval).

\* The elements of l whose rule has priority p, in the order of l.
RECURSIVE WithPriority(_, _)
WithPriority(l, p) ==
    IF Len(l) = 0 THEN <<>>
    ELSE IF Rule[Head(l)].Priority = p THEN <<Head(l)>> \o WithPriority(Tail(l), p)
    ELSE WithPriority(Tail(l), p)
Priorities == {Rule[n].Priority : n \in RuleNames}
\* Pair a comes before pair b: an earlier rule, or an earlier condition of the same rule.
Before(a, b) == a[1] < b[1] \/ (a[1] = b[1] /\ a[2] < b[2])

\* C13: after any AddRule/DeleteRule calls the rule list is sorted by
\* non-decreasing priority, rules of equal priority are in the order they were
\* added, and evaluateRequest goes through the list in that order.
C13_RulesStablySorted ==
    /\ \A i \in 1 .. (Len(e_r) - 1) : Rule[e_r[i]].Priority <= Rule[e_r[i + 1]].Priority
    /\ \A p \in Priorities : WithPriority(e_r, p) = WithPriority(ins, p)
    /\ \A k \in 1 .. (Len(evald) - 1) : Before(evald[k], evald[k + 1])

\* After a DeleteRule, three rules are held, not in the order they were added,
\* two of them of one priority, and a request was evaluated against two rules.
C13_Witness ==
    /\ ruleDeleted
    /\ Len(e_r) = 3
    /\ e_r # ins
    /\ \E i \in 1 .. 2 : Rule[e_r[i]].Priority = Rule[e_r[i + 1]].Priority /\ e_r[i] # e_r[i + 1]
    /\ Len(evald) >= 2
    /\ evald[1][1] # evald[Len(evald)][1]

\* Evaluating condition c on request q gave true, with no error.
CondHolds(q, c) == ~evaluateCondition(q, c).err /\ evaluateCondition(q, c).ret
\* Rule n matches request q.
Matches(q, n) ==
    /\ q.listener # NoListener
    /\ q.listener = Rule[n].Listener
    /\ \A j \in 1 .. Len(Rule[n].Conditions) : CondHolds(q, Rule[n].Conditions[j])
\* The places in e_r of the rules that match q.
Matching(q) == {i \in 1 .. Len(e_r) : Matches(q, e_r[i])}
\* The smallest element of a non-empty set of numbers.
Min(S) == CHOOSE x \in S : \A y \in S : x <= y

\* C14: evaluateRequest (no condition returning an error) returns the Action
\* of the first rule of the list that matches the request, and with no rule
\* matching the reject action 500 "no rule was satisfied".
C14_FirstMatchOrReject500 ==
    (req # NoRequest /\ ~evaluateRequest(req).err) =>
        IF Matching(req) # {}
        THEN evaluateRequest(req).Action = Rule[e_r[Min(Matching(req))]].Action
        ELSE evaluateRequest(req).Action = Action("", 500, "no rule was satisfied", "")

\* Two rules with different actions match the request, the second rule and the third.
C14_Witness ==
    /\ req # NoRequest
    /\ ~evaluateRequest(req).err
    /\ Matching(req) = {2, 3}
    /\ Rule[e_r[2]].Action # Rule[e_r[3]].Action

\* C15: the rule whose Action is returned is for the listener of the request
\* and all its conditions are true; no rule before it is; a rule for another
\* listener has none of its conditions evaluated; a request with no listener
\* matches no rule.
C15_MatchIffListenerAndConditions ==
    req # NoRequest =>
        LET t == evaluateRequest(req) IN
        /\ t.rule # 0 => (t.rule \in Matching(req) /\ \A i \in 1 .. (t.rule - 1) : i \notin Matching(req))
        /\ (~t.err /\ t.rule = 0) => Matching(req) = {}
        /\ \A k \in 1 .. Len(evald) : Rule[e_r[evald[k][1]]].Listener = req.listener
        /\ req.listener = NoListener => (evald = <<>> /\ t.rule = 0)

\* The first rule has a true condition but is for another listener; the second matched.
C15_Witness ==
    /\ req # NoRequest
    /\ Len(e_r) >= 2
    /\ Rule[e_r[1]].Listener # req.listener
    /\ Len(Rule[e_r[1]].Conditions) > 0
    /\ \A j \in 1 .. Len(Rule[e_r[1]].Conditions) : CondHolds(req, Rule[e_r[1]].Conditions[j])
    /\ evaluateRequest(req).rule = 2

\* The condition that the k-th evaluateCondition call of the last request was for.
EvaldCond(k) == Rule[e_r[evald[k][1]]].Conditions[evald[k][2]]

\* C16: a condition that returns an error is the last one evaluated, the
\* response is 502 "rule evaluation failed" and the next handler is not called.
C16_ErrorAbortsWith502 ==
    \A k \in 1 .. Len(evald) :
        evaluateCondition(req, EvaldCond(k)).err =>
            /\ k = Len(evald)
            /\ resp = Response(502, "rule evaluation failed", "", FALSE, "")

\* A condition of the first rule returned an error and a later rule matches the request.
C16_Witness ==
    /\ evald # <<>>
    /\ evaluateCondition(req, EvaldCond(Len(evald))).err
    /\ evald[Len(evald)][1] = 1
    /\ \E i \in 2 .. Len(e_r) : i \in Matching(req) /\ Rule[e_r[i]].Action.NodeGroup # ""

\* C17: of the returned action one facet takes effect, the first of NodeGroup
\* (not empty), Reject (StatusCode not 0) and Redirect (not empty): the next
\* handler called with the group, the error page with the status, a 302; with
\* none, 502 "rule matched has no action". The next handler is called in the
\* NodeGroup case only.
C17_OneFacetInOrder ==
    (req # NoRequest /\ ~evaluateRequest(req).err) =>
        LET a == evaluateRequest(req).Action IN
        /\ resp.next <=> a.NodeGroup # ""
        /\ a.NodeGroup # "" => resp = Response(0, "", "", TRUE, a.NodeGroup)
        /\ (a.NodeGroup = "" /\ a.Reject.StatusCode # 0) =>
               resp = Response(a.Reject.StatusCode, a.Reject.Message, "", FALSE, "")
        /\ (a.NodeGroup = "" /\ a.Reject.StatusCode = 0 /\ a.Redirect # "") =>
               resp = Response(302, "", a.Redirect, FALSE, "")
        /\ (a.NodeGroup = "" /\ a.Reject.StatusCode = 0 /\ a.Redirect = "") =>
               resp = Response(502, "rule matched has no action", "", FALSE, "")

\* The matched action has the three facets and the request went to the next handler.
C17_Witness ==
    /\ req # NoRequest
    /\ evaluateRequest(req).rule # 0
    /\ evaluateRequest(req).Action = Action("g2", 404, "gone", "https://e")
    /\ resp.next
    /\ resp.NodeGroup = "g2"

-----------------------------------------------------------------------------
\* Properties of the router (SpecRouter).

\* C18: a request that reaches the router causes at most one Balance call on
\* its group and is sent to at most one node; when Balance returns no node or
\* the forward fails, the response is 502 "bad gateway".
C18_OneBalanceNoRetry ==
    /\ rcalls <= 1
    /\ Len(rtried) <= 1
    /\ (rpc = "done" /\ rq.eval = "g1" /\ (rq.node = NoNode \/ rq.fwd = "err")) =>
           /\ rresp = Response(502, "bad gateway", "", FALSE, "")
           /\ rq.node = NoNode => rtried = <<>>

\* The forward to the chosen node failed while the pool held another node.
C18_Witness ==
    /\ rpc = "done"
    /\ rq.fwd = "err"
    /\ rcalls = 1
    /\ rtried = <<rq.node>>
    /\ Cardinality(Pool) >= 2
    /\ rresp.status = 502

-----------------------------------------------------------------------------
\* Properties of the listeners (SpecServer).

\* C19: the process ends (listenerControl returns, or the process terminates)
\* only when the shutdown of every listener is over: its Shutdown returned,
\* with or without its requests completed in time.
C19_ExitAfterAllShutdown ==
    process # "running" => \A l \in ServerListeners : lstate[l] \in {"returned", "timedout"}

-----------------------------------------------------------------------------
\* Properties of the node group and its health checkers (SpecNG).

\* The node is in the group: ng.nodes holds this Node object under its key.
InGroup(n) == ngNodes[Key(n)] = n
\* NodeGroup.DeleteNode took the node out of the group and it was not added again.
Removed(n) == ctxDone[n] /\ ~InGroup(n)

\* C2: a node is not in the balancer's pool, and Balance does not return it,
\* before one of its probes returned without error and with status 200.
C2_NoTrafficBeforeProbeOK ==
    /\ Pool \subseteq everOK
    /\ hist # <<>> => (Last(hist) = NoNode \/ Last(hist) \in everOK)

\* Balance returned a probed node while a node all of whose probes failed stays out of the pool.
C2_Witness ==
    /\ hist # <<>>
    /\ Last(hist) \in everOK
    /\ \E n \in GroupNodes :
           /\ InGroup(n)
           /\ lastProbe[n] = "err"
           /\ n \notin everOK
           /\ n \notin Pool

\* C3: once NodeGroup.DeleteNode has taken a node out of the group, Balance
\* does not return that node (no key was added while the group held it).
C3_RemovedNeverReturned ==
    (~keyClash /\ hist # <<>>) => (Last(hist) = NoNode \/ ~Removed(Last(hist)))

\* C4: the health checker of a node that DeleteNode removed (its context is
\* cancelled) starts no further checkNodeHealth call.
C4_NoProbeAfterDelete ==
    [][\A n \in GroupNodes :
           (ctxDone[n] /\ checker[n] = "select") => checker'[n] # "roundtrip"]_vars

\* C5: with no probe result waiting to be applied, a node is in the pool
\* exactly if it is in the group and its last probe succeeded (no key was
\* added while the group held it).
C5_PoolIffInGroupAndProbeOK ==
    (~keyClash /\ \A n \in GroupNodes : checker[n] \notin {"ok", "err"}) =>
        \A n \in GroupNodes : (n \in Pool) <=> (InGroup(n) /\ lastProbe[n] = "ok")

\* C20: a completed probe of a node that the group still holds acts on an edge
\* only: healthy and failed, the node becomes unhealthy and Balancer.DeleteNode
\* is called once; unhealthy and succeeded, it becomes healthy and
\* Balancer.AddNode is called once; otherwise neither the flag nor the
\* balancer changes. No other node's flag changes.
C20_ProbeActsOnEdgeOnly ==
    [][\A n \in GroupNodes :
           (Transition(n) /\ ngNodes[Key(n)] # NoNode) =>
               /\ (healthy[n] /\ checker[n] = "err") =>
                      (~healthy'[n] /\ Balancer_DeleteNode(Key(n)))
               /\ (~healthy[n] /\ checker[n] = "ok") =>
                      (healthy'[n] /\ Balancer_AddNode(n))
               /\ (healthy[n] <=> checker[n] = "ok") => UNCHANGED <<healthy, balVars>>
               /\ \A m \in Nodes \ {n} : healthy'[m] = healthy[m]]_vars

\* A node that was never deleted went into the pool on a successful probe and
\* out of it on a later failed one.
C20_Witness ==
    /\ ~keyClash
    /\ \E n \in GroupNodes :
           /\ InGroup(n)
           /\ ~ctxDone[n]
           /\ n \in everOK
           /\ ~healthy[n]
           /\ lastProbe[n] = "err"
           /\ checker[n] = "select"
           /\ n \notin Pool

C22_KeyOnceInPool ==
    ~keyClash =>
        IF algo = "lc"
        THEN \A i, j \in 1 .. Len(lcNodes) : Key(lcNodes[i].node) = Key(lcNodes[j].node) => i = j
        ELSE \A i, j \in 1 .. Len(nodes) : Key(nodes[i]) = Key(nodes[j]) => i = j

\* C23: every node the group holds has a health checker that runs and whose
\* context is not cancelled.
C23_CheckerRunsWhileInGroup ==
    \A n \in GroupNodes :
        InGroup(n) => (checker[n] \in {"select", "roundtrip", "ok", "err"} /\ ~ctxDone[n])

\* C30: the probe result of a Node object that DeleteNode removed and that the
\* group does not hold changes neither that Node's healthy flag nor the
\* balancer, even when the group holds another Node under the same key (no
\* key was added to the group while the group held it).
C30_StaleProbeHasNoEffect ==
    [][\A n \in GroupNodes :
           (~keyClash /\ Transition(n) /\ Removed(n)) =>
               (healthy'[n] = healthy[n] /\ UNCHANGED balVars)]_vars

\* C31: NodeGroup.DeleteNode with a key the group does not hold (never added,
\* or deleted before) completes without failure and leaves the node map, the
\* balancer pool and every health checker as they were.
C31_DeleteMissingKeyIsNoOp ==
    [][\A nk \in Keys :
          (DeleteNode(nk) /\ ngNodes[nk] = NoNode) =>
              /\ ~panicked'
              /\ UNCHANGED <<ngNodes, balVars, healthCheckerCancel, ctxDone, checker>>]_vars

-----------------------------------------------------------------------------
\* Properties of a balancer called by concurrent goroutines (SpecConc).

\* Goroutine g is about to run the body of a balancer method.
AtBody(g) == gprog[g] # <<>> /\ Head(gprog[g]).i = "Write"
\* Goroutine g is between the mu.Lock() and the mu.Unlock() of a balancer method.
InMethod(g) == gprog[g] # <<>> /\ Head(gprog[g]).l = Mu /\ Head(gprog[g]).i \in {"Write", "Unlock"}
\* Goroutine g waits in the mu.Lock() of a balancer method.
Waits(g) == gprog[g] # <<>> /\ Head(gprog[g]).i = "Lock" /\ locks[Head(gprog[g]).l] # 0

\* C28: concurrent Balance, AddNode, DeleteNode and (LC) completion calls on one
\* balancer take effect one at a time: at most one call is inside a method, the
\* state a call acts on is the state it found when it entered (no two calls
\* read the same cursor, credit or heap), only the call inside changes the
\* balancer, and the RR order and the WRR window hold for the Balance results
\* in the order in which the calls took effect.
C28_CallsTakeEffectAtomically ==
    /\ [](/\ \A g, h \in Goroutines : (InMethod(g) /\ InMethod(h)) => g = h
          /\ \A g \in Goroutines : InMethod(g) => locks[Mu] = g
          /\ \A g \in Goroutines : AtBody(g) => gsnap[g] = balVars
          /\ (algo = "rr" /\ Len(nodes) > 0) =>
                 \A i \in 1 .. (Len(hist) - 1) :
                     /\ IndexOf(nodes, hist[i]) # 0
                     /\ hist[i + 1] = nodes[(IndexOf(nodes, hist[i]) % Len(nodes)) + 1]
          /\ (algo = "wrr" /\ Len(nodes) > 0) =>
                 \A s \in 1 .. (Len(hist) - SumWeights(nodes) + 1) :
                     \A i \in 1 .. Len(nodes) :
                         CountIn(hist, s, SumWeights(nodes), nodes[i]) = weight[nodes[i]])
    /\ [][balVars' # balVars =>
              \E g \in Goroutines : AtBody(g) /\ locks[Mu] = g /\ gprog'[g] = Tail(gprog[g])]_vars

\* A Balance is inside the method while another Balance waits for the mutex,
\* after an earlier Balance has taken effect.
C28_Witness ==
    /\ algo = "rr"
    /\ Len(nodes) = 2
    /\ Len(hist) >= 1
    /\ \E g, h \in Goroutines :
           /\ g # h
           /\ AtBody(g) /\ Head(gprog[g]).op.kind = "bal"
           /\ Waits(h) /\ gprog[h][2].op.kind = "bal"

-----------------------------------------------------------------------------
\* Properties of the mutexes of the group, the nodes and the balancer
\* (SpecLock, SpecLockFair).

\* The mutexes goroutine g holds.
Held(g) == {l \in Mutexes : locks[l] = g}
\* The order of acquisition: the group's nodesMu, a node's healthMu, the balancer's mu.
Rank(l) == CASE l.mu = "nodesMu" -> 1 [] l.mu = "healthMu" -> 2 [] l.mu = "mu" -> 3
Busy(g) == gprog[g] # <<>>

\* C29: among concurrent NodeGroup.AddNode, NodeGroup.DeleteNode, health-check
\* transitions, Balance calls and LC completion observers no deadlock is
\* reachable: a goroutine takes a mutex only while it holds mutexes that come
\* before it in the one order nodesMu, healthMu, mu; while the process runs and
\* a call is in progress some call can take its next step; a call that is over
\* holds no mutex; and every call that was started comes to its end (or the
\* process ends).
C29_NoDeadlock ==
    /\ [](/\ \A g \in Goroutines :
                 (Busy(g) /\ Head(gprog[g]).i = "Lock") =>
                     \A l \in Held(g) : Rank(l) < Rank(Head(gprog[g]).l)
          /\ (~panicked /\ \E g \in Goroutines : Busy(g)) =>
                 \E g \in Goroutines : Busy(g) /\ ~Waits(g)
          /\ \A g \in Goroutines : ~Busy(g) => Held(g) = {})
    /\ \A g \in Goroutines : Busy(g) ~> (~Busy(g) \/ panicked)

\* A health-check transition holds nodesMu and the node's healthMu and waits
\* for the balancer's mu, which a Balance call holds.
C29_Witness ==
    \E g, h \in Goroutines :
        /\ g # h
        /\ Held(g) = {NodesMu, HealthMu("A")}
        /\ Waits(g) /\ Head(gprog[g]).l = Mu
        /\ Held(h) = {Mu}
====
